---------------------------- MODULE Spec2Model ----------------------------
(***************************************************************************)
(* ConnectPlus backend_service: order placement with engineer assignment, *)
(* order / ticket status workflows, and the rate-limited chat pipeline.    *)
(*                                                                         *)
(* Conventions of the model                                                *)
(*  - A document id (an ObjectId rendered as a 24-hex string) is a         *)
(*    positive integer: ids are handed out in insertion order, so the id   *)
(*    of a document of a collection is its index in the collection's       *)
(*    sequence.  MalformedId stands for every string ObjectId() rejects.   *)
(*  - A timestamp is the value of the wall clock `clock`, in seconds.      *)
(*  - The handlers of the orders and tickets routers and chat_history are  *)
(*    plain `def`s: FastAPI runs each call on a worker thread, so calls    *)
(*    run side by side and another call, or the clock, can come in         *)
(*    between any two of a call's database operations and clock reads.     *)
(*    A call is therefore a sequence of steps, one per clock read and per  *)
(*    database write (a read of data no step can change any more is taken  *)
(*    together with the step that follows it).  A call between two of its  *)
(*    steps is a record in `creating`, `inflight`, `ticketCalls` or        *)
(*    `pending`, holding the locals it carries on.                         *)
(*  - chat_send is an `async def` whose database calls block: it runs on   *)
(*    the event loop of the one server process and gives way to other      *)
(*    coroutines only at `await client.post(...)`.  The clock and the      *)
(*    worker threads still move between its steps.                         *)
(*  - A step is an operator from the call's locals and the store to a      *)
(*    record holding the HTTP status code (0 while the call goes on) and   *)
(*    what it writes; the action of the same name (capitalised) draws the  *)
(*    request or the call and applies it.                                  *)
(***************************************************************************)
EXTENDS Integers, Sequences, FiniteSets, TLC

VARIABLES
    clock,          \* now_utc() / time.time(), seconds
    plans,          \* db.plans:      plan id -> [price, status]
    engineers,      \* db.engineers:  engineer id -> [status, areas, skills, workload, updated_at]
    orders,         \* db.orders:     sequence of order documents, id = index
    nUpdates,       \* history: per order, successful update_order_status calls
    inflight,       \* update_order_status calls that have read the clock, not yet written
    creating,       \* create_order calls past the plan lookup, not yet returned
    tickets,        \* db.tickets:    sequence of ticket documents, id = index
    nTicketOps,     \* history: per ticket, successful status/assign/comment calls
    ticketCalls,    \* ticket calls that have read the clock, not yet written
    events,         \* InMemoryRateLimiter._events: key -> deque of timestamps
    accepted,       \* history: per key, every timestamp check() accepted
    conversations,  \* db.conversations: sequence, id = index
    messages,       \* db.messages:      sequence, id = index
    pending,        \* chat_send coroutines past the rate-limit check, not yet returned
    aiCalls,        \* history: requests received by the AI reply service
    resp            \* the last chat_send step: caller, HTTP status, how the AI call went

vars == <<clock, plans, engineers, orders, nUpdates, inflight, creating, tickets,
          nTicketOps, ticketCalls,
          events, accepted, conversations, messages, pending, aiCalls, resp>>

ordersVars  == <<plans, engineers, orders, nUpdates, inflight, creating>>
ticketsVars == <<tickets, nTicketOps, ticketCalls>>
chatVars    == <<events, accepted, conversations, messages, pending, aiCalls>>

-----------------------------------------------------------------------------
(* Bounds of the model *)

TickSeconds == 30
OrdersMaxClock == 30
MaxOrders == 2
MaxOrderUpdates == 2
MaxOrderCalls == 2
TicketsMaxClock == 30
MaxTickets == 2
MaxTicketOps == 3
MaxTicketCalls == 2
ChatMaxClock == 90
MaxMessages == 3
MaxPending == 2
MaxHistoryLimit == 3
ChatRateLimitPerMinute == 2
MaxServiceDocs == 2
MaxServiceOps == 2
MaxServiceCalls == 2

(* Program constants *)

MalformedId == 0
NoCursor == -1
WindowSeconds == 60

NoEngineer == "null"

-----------------------------------------------------------------------------
(* Principals (core/auth.py AuthUser): a user id and its role labels *)

StaffRoles == {"admin", "agent", "engineer"}

Principals ==
    { [user_id |-> "u1", roles |-> {"user"}],
      [user_id |-> "u2", roles |-> {"user"}],
      [user_id |-> "s1", roles |-> {"agent"}] }

AllPrincipals ==
    Principals \cup
    { [user_id |-> "a1", roles |-> {"admin", "user"}],
      [user_id |-> "e1", roles |-> {"engineer"}],
      [user_id |-> "u1", roles |-> {"user", "agent"}],
      [user_id |-> "x1", roles |-> {"manager"}] }

\* require_roles._dep: any(r in user.roles for r in required)
require_roles(required, user) == \E r \in required : r \in user.roles

\* utils.oid: ObjectId(value) or HTTP 400
oid_ok(value) == value >= 1

Response(op, by, code, ai) == [op |-> op, by |-> by, code |-> code, ai |-> ai]

Last(s) == s[Len(s)]

\* Calls between two steps are told apart by a number: the least one no call
\* of `calls` carries.
NextCallOf(calls) ==
    LET used == { c.call : c \in calls } IN
        CHOOSE n \in 1..(Cardinality(calls) + 1) : n \notin used

\* The call `old` goes on as `new`.
Moved(calls, old, new) == (calls \ {old}) \cup {new}

-----------------------------------------------------------------------------
(* Orders router *)

Pincodes == {"560034", "560001", "110001"}

OrderStatuses == {"scheduled", "in_progress", "completed", "cancelled"}

StatusInputs == {"in_progress", "completed", "cancelled", "bogus"}

\* Mutant of Eligible: the status condition left out of the filter.
Eligible_IgnoresStatus(engs, pincode) ==
    { e \in DOMAIN engs :
        /\ pincode \in engs[e].areas
        /\ "install" \in engs[e].skills }

\* The engineers matched by the filter of _pick_engineer_for_area
Eligible(engs, pincode) ==
    { e \in DOMAIN engs :
        /\ engs[e].status = "ACTIVE"
        /\ pincode \in engs[e].areas
        /\ "install" \in engs[e].skills }

\* Mutant of pick_engineer_for_area: falls back to the least loaded install
\* engineer of any area when none serves the pincode.
pick_engineer_for_area_AnyArea(engs, pincode) ==
    LET inArea == Eligible(engs, pincode)
        anyArea == { e \in DOMAIN engs : /\ engs[e].status = "ACTIVE"
                                         /\ "install" \in engs[e].skills }
        pool == IF inArea = {} THEN anyArea ELSE inArea
    IN { e \in pool : \A o \in pool : engs[e].workload <= engs[o].workload }

\* find_one(..., sort=[("workload", 1)]): a matching engineer of least
\* workload; which one among equals is up to the store, so the set of
\* documents find_one may return.  Empty when find_one returns None.
pick_engineer_for_area(engs, pincode) ==
    { e \in Eligible(engs, pincode) :
        \A o \in Eligible(engs, pincode) : engs[e].workload <= engs[o].workload }

NextCall == NextCallOf(creating)

\* Mutant of create_order_begin: the plan lookup does not filter on status.
create_order_begin_AnyPlanStatus(user, plan_id, pincode) ==
    IF ~oid_ok(plan_id) \/ plan_id \notin DOMAIN plans
    THEN [code |-> 400, creating |-> creating]
    ELSE [ code |-> 0,
           creating |-> creating \cup
               { [ call |-> NextCall,
                   pc |-> "clock",
                   user_id |-> user.user_id,
                   plan_id |-> plan_id,
                   pincode |-> pincode,
                   price |-> plans[plan_id].price,
                   ts |-> 0,
                   engineer |-> NoEngineer,
                   workload |-> 0 ] } ]

\* create_order, first step: oid(body.plan_id) and plans.find_one({"_id":
\* ..., "status": "ACTIVE"}); HTTP 400 when nothing is found.  Code 0: the
\* call goes on, holding the plan document it has read (its price).  `ts`,
\* `engineer` and `workload` are locals not yet assigned.
create_order_begin(user, plan_id, pincode) ==
    IF ~oid_ok(plan_id) \/ plan_id \notin DOMAIN plans
          \/ plans[plan_id].status # "ACTIVE"
    THEN [code |-> 400, creating |-> creating]
    ELSE [ code |-> 0,
           creating |-> creating \cup
               { [ call |-> NextCall,
                   pc |-> "clock",
                   user_id |-> user.user_id,
                   plan_id |-> plan_id,
                   pincode |-> pincode,
                   price |-> plans[plan_id].price,
                   ts |-> 0,
                   engineer |-> NoEngineer,
                   workload |-> 0 ] } ]

\* ts = now_utc()
create_order_clock(req, now) ==
    [ code |-> 0,
      creating |-> Moved(creating, req, [req EXCEPT !.pc = "pick", !.ts = now]) ]

\* engineer = _pick_engineer_for_area(db, body.pincode): the engineer
\* document found is kept as read, its id and the workload it showed.  One
\* outcome per document find_one may return.
create_order_pick(req) ==
    LET found == pick_engineer_for_area(engineers, req.pincode) IN
        IF found = {}
        THEN { [ code |-> 0,
                 creating |-> Moved(creating, req, [req EXCEPT !.pc = "insert"]) ] }
        ELSE { [ code |-> 0,
                 creating |-> Moved(creating, req,
                     [req EXCEPT !.pc = "insert", !.engineer = e,
                                 !.workload = engineers[e].workload]) ]
               : e \in found }

\* insert_one(order_doc).  Without an engineer nothing is left to write and
\* the call returns the order; with one, the increment follows.
create_order_insert(req) ==
    [ code |-> IF req.engineer = NoEngineer THEN 200 ELSE 0,
      orders |-> Append(orders,
          [ user_id |-> req.user_id,
            plan_id |-> req.plan_id,
            pincode |-> req.pincode,
            price |-> req.price,
            status |-> "scheduled",
            assigned_engineer_id |-> req.engineer,
            timeline |-> << [status |-> "scheduled", ts |-> req.ts, by |-> req.user_id] >>,
            created_at |-> req.ts,
            updated_at |-> req.ts ]),
      creating |-> IF req.engineer = NoEngineer
                   THEN creating \ {req}
                   ELSE Moved(creating, req, [req EXCEPT !.pc = "inc"]) ]

\* Mutant of create_order_inc: the new workload is computed from the
\* workload the engineer document showed when it was picked.
create_order_inc_FromDocumentRead(req) ==
    [ code |-> 200,
      engineers |-> [engineers EXCEPT ![req.engineer].workload = req.workload + 1,
                                      ![req.engineer].updated_at = req.ts],
      creating |-> creating \ {req} ]

\* Mutant of create_order_inc: the workload of every engineer serving the
\* pincode is raised, not only that of the engineer assigned.
create_order_inc_BumpsCandidates(req) ==
    [ code |-> 200,
      engineers |-> [ o \in DOMAIN engineers |->
          IF o \in Eligible(engineers, req.pincode)
          THEN [engineers[o] EXCEPT !.workload = @ + 1, !.updated_at = req.ts]
          ELSE engineers[o] ],
      creating |-> creating \ {req} ]

\* update_one({"_id": ...}, {"$inc": {"workload": 1}, "$set": {"updated_at":
\* ts}}): one atomic update of the engineer document; the call then reads
\* the order back and returns it.
create_order_inc(req) ==
    [ code |-> 200,
      engineers |-> [engineers EXCEPT ![req.engineer].workload = @ + 1,
                                      ![req.engineer].updated_at = req.ts],
      creating |-> creating \ {req} ]

\* get_order_by_id: the id parse, the lookup, then the owner-or-privileged
\* rule.  The handler reads only; it yields the status code and, on success,
\* the document it returns.
get_order_by_id(user, order_id) ==
    IF ~oid_ok(order_id) THEN [code |-> 400, doc |-> 0]
    ELSE IF order_id \notin DOMAIN orders THEN [code |-> 404, doc |-> 0]
    ELSE LET is_owner == orders[order_id].user_id = user.user_id
             is_privileged == require_roles({"admin", "agent", "engineer"}, user)
         IN  IF ~(is_owner \/ is_privileged)
             THEN [code |-> 403, doc |-> 0]
             ELSE [code |-> 200, doc |-> order_id]

NextInflightCall == NextCallOf(inflight)

\* Mutant of update_order_status_begin: no role gate in front of the handler.
update_order_status_begin_AnyRole(user, order_id, status, now) ==
    IF status \notin OrderStatuses THEN [code |-> 400, inflight |-> inflight]
    ELSE [ code |-> 0,
           inflight |-> inflight \cup
               { [ call |-> NextInflightCall, order_id |-> order_id,
                   status |-> status, ts |-> now ] } ]

\* update_order_status, first step: the role gate (a dependency), the label
\* check and `ts = now_utc()`.  Code 0: the call goes on to the write with
\* the timestamp it has read.
update_order_status_begin(user, order_id, status, now) ==
    IF ~require_roles(StaffRoles, user) THEN [code |-> 403, inflight |-> inflight]
    ELSE IF status \notin OrderStatuses THEN [code |-> 400, inflight |-> inflight]
    ELSE [ code |-> 0,
           inflight |-> inflight \cup
               { [ call |-> NextInflightCall, order_id |-> order_id,
                   status |-> status, ts |-> now ] } ]

\* Mutant of update_order_status_commit: the $push of the timeline entry
\* left out.
update_order_status_commit_NoPush(req) ==
    IF ~oid_ok(req.order_id) THEN [code |-> 400, orders |-> orders]
    ELSE IF req.order_id \notin DOMAIN orders THEN [code |-> 404, orders |-> orders]
    ELSE [ code |-> 200,
           orders |-> [orders EXCEPT ![req.order_id].status = req.status,
                                     ![req.order_id].updated_at = req.ts] ]

\* Mutant of update_order_status_commit: an order that is completed or
\* cancelled cannot be moved any more.
update_order_status_commit_TerminalLocked(req) ==
    IF ~oid_ok(req.order_id) THEN [code |-> 400, orders |-> orders]
    ELSE IF req.order_id \notin DOMAIN orders THEN [code |-> 404, orders |-> orders]
    ELSE IF orders[req.order_id].status \in {"completed", "cancelled"}
    THEN [code |-> 400, orders |-> orders]
    ELSE [ code |-> 200,
           orders |-> [orders EXCEPT
               ![req.order_id].status = req.status,
               ![req.order_id].updated_at = req.ts,
               ![req.order_id].timeline =
                   Append(@, [status |-> req.status, ts |-> req.ts, by |-> "staff"])] ]

\* Mutant of update_order_status_commit: the update refreshes the order's
\* price from its plan.
update_order_status_commit_RefreshPrice(req) ==
    IF ~oid_ok(req.order_id) THEN [code |-> 400, orders |-> orders]
    ELSE IF req.order_id \notin DOMAIN orders THEN [code |-> 404, orders |-> orders]
    ELSE [ code |-> 200,
           orders |-> [orders EXCEPT
               ![req.order_id].status = req.status,
               ![req.order_id].updated_at = req.ts,
               ![req.order_id].price = plans[orders[req.order_id].plan_id].price,
               ![req.order_id].timeline =
                   Append(@, [status |-> req.status, ts |-> req.ts, by |-> "staff"])] ]

\* Its second step: the id parse and the one find_one_and_update, carrying
\* the timestamp read in the first; 404 when nothing matched.
update_order_status_commit(req) ==
    IF ~oid_ok(req.order_id) THEN [code |-> 400, orders |-> orders]
    ELSE IF req.order_id \notin DOMAIN orders THEN [code |-> 404, orders |-> orders]
    ELSE [ code |-> 200,
           orders |-> [orders EXCEPT
               ![req.order_id].status = req.status,
               ![req.order_id].updated_at = req.ts,
               ![req.order_id].timeline =
                   Append(@, [status |-> req.status, ts |-> req.ts, by |-> "staff"])] ]

TotalOrderUpdates ==
    LET RECURSIVE Sum(_)
        Sum(i) == IF i = 0 THEN 0 ELSE nUpdates[i] + Sum(i - 1)
    IN Sum(Len(nUpdates))

\* Requests drawn by the actions: a customer places orders, the customer and
\* a staff member ask for status updates; a seeded plan, a malformed id and
\* an id of no plan; a pincode two engineers serve and one nobody serves.
OrderCustomers == { p \in Principals : p.user_id = "u1" }

OrderPrincipals == { p \in Principals : p.user_id \in {"u1", "s1"} }

PlanIdInputs == {1, MalformedId, 9}

PincodeInputs == {"560034", "110001"}

OrderCalls == Cardinality(creating) + Cardinality(inflight)

\* Placements that have not stored their order yet.
OrdersToCome == Cardinality({ c \in creating : c.pc # "inc" })

CreateOrderBegin ==
    /\ Len(orders) + OrdersToCome < MaxOrders
    /\ OrderCalls < MaxOrderCalls
    /\ \E user \in OrderCustomers, plan_id \in PlanIdInputs, pincode \in PincodeInputs :
          creating' = create_order_begin(user, plan_id, pincode).creating
    /\ UNCHANGED <<clock, plans, engineers, orders, nUpdates, inflight, ticketsVars,
                   chatVars, resp>>

CreateOrderClock ==
    /\ \E req \in { c \in creating : c.pc = "clock" } :
          creating' = create_order_clock(req, clock).creating
    /\ UNCHANGED <<clock, plans, engineers, orders, nUpdates, inflight, ticketsVars,
                   chatVars, resp>>

CreateOrderPick ==
    /\ \E req \in { c \in creating : c.pc = "pick" } :
        \E r \in create_order_pick(req) :
            creating' = r.creating
    /\ UNCHANGED <<clock, plans, engineers, orders, nUpdates, inflight, ticketsVars,
                   chatVars, resp>>

CreateOrderInsert ==
    /\ \E req \in { c \in creating : c.pc = "insert" } :
          LET r == create_order_insert(req) IN
            /\ orders' = r.orders
            /\ nUpdates' = Append(nUpdates, 0)
            /\ creating' = r.creating
    /\ UNCHANGED <<clock, plans, engineers, inflight, ticketsVars, chatVars, resp>>

CreateOrderInc ==
    /\ \E req \in { c \in creating : c.pc = "inc" } :
          LET r == create_order_inc(req) IN
            /\ engineers' = r.engineers
            /\ creating' = r.creating
    /\ UNCHANGED <<clock, plans, orders, nUpdates, inflight, ticketsVars, chatVars, resp>>

GetOrderById ==
    /\ \E user \in Principals, order_id \in 0..(Len(orders) + 1) :
          get_order_by_id(user, order_id).code \in {200, 400, 403, 404}
    /\ UNCHANGED vars

UpdateOrderStatusBegin ==
    /\ TotalOrderUpdates + Cardinality(inflight) < MaxOrderUpdates
    /\ OrderCalls < MaxOrderCalls
    /\ \E user \in OrderPrincipals, order_id \in 0..(Len(orders) + 1),
          status \in StatusInputs :
          inflight' = update_order_status_begin(user, order_id, status, clock).inflight
    /\ UNCHANGED <<clock, plans, engineers, orders, nUpdates, creating, ticketsVars,
                   chatVars, resp>>

UpdateOrderStatusCommit ==
    /\ \E req \in inflight :
          LET r == update_order_status_commit(req) IN
            /\ orders' = r.orders
            /\ nUpdates' = IF r.code = 200
                           THEN [nUpdates EXCEPT ![req.order_id] = @ + 1]
                           ELSE nUpdates
            /\ inflight' = inflight \ {req}
    /\ UNCHANGED <<clock, plans, engineers, creating, ticketsVars, chatVars, resp>>

\* The catalogue is maintained outside this service: no endpoint writes
\* db.plans or the status of an engineer, the routers only read them.  A
\* maintainer of the database changes the price of a seeded plan (once),
\* takes a plan off sale, or takes an engineer off duty.
PriceInputs == {799}

RepricePlan ==
    /\ \E p \in {1}, price \in PriceInputs :
          /\ plans[p].price # price
          /\ \A q \in PriceInputs : plans[p].price # q
          /\ plans' = [plans EXCEPT ![p].price = price]
    /\ UNCHANGED <<clock, engineers, orders, nUpdates, inflight, creating, ticketsVars,
                   chatVars, resp>>

RetirePlan ==
    /\ \E p \in {2} :
          /\ plans[p].status = "ACTIVE"
          /\ plans' = [plans EXCEPT ![p].status = "RETIRED"]
    /\ UNCHANGED <<clock, engineers, orders, nUpdates, inflight, creating, ticketsVars,
                   chatVars, resp>>

DeactivateEngineer ==
    /\ \E e \in {"e2"} :
          /\ engineers[e].status = "ACTIVE"
          /\ engineers' = [engineers EXCEPT ![e].status = "INACTIVE"]
    /\ UNCHANGED <<clock, plans, orders, nUpdates, inflight, creating, ticketsVars,
                   chatVars, resp>>

\* The wall clock advances, also between two steps of a call.
Tick(maxClock) ==
    /\ clock + TickSeconds <= maxClock
    /\ clock' = clock + TickSeconds
    /\ UNCHANGED <<ordersVars, ticketsVars, chatVars, resp>>

-----------------------------------------------------------------------------
(* Tickets router *)

TicketStatuses == {"open", "assigned", "in_progress", "resolved", "closed"}

TicketStatusInputs == {"resolved", "closed", "bogus"}

NoAssignee == "null"

Note(ts, by, type, message) ==
    [ts |-> ts, by |-> by, type |-> type, message |-> message]

NextTicketCall == NextCallOf(ticketCalls)

\* The locals a ticket call carries from its clock read to its write.
TicketCall(op, ticket_id, by, message, ts) ==
    [ call |-> NextTicketCall, op |-> op, ticket_id |-> ticket_id,
      by |-> by, message |-> message, ts |-> ts ]

\* create_ticket, first step: `ts = now_utc()`.  It has no check to fail.
create_ticket_begin(user, category, description, now) ==
    [ code |-> 0,
      ticketCalls |-> ticketCalls \cup
          { TicketCall("create", 0, user.user_id, description, now) } ]

\* Its insert_one; the call then reads the ticket back and returns it.
create_ticket_insert(req, category) ==
    [ code |-> 200,
      tickets |-> Append(tickets,
          [ user_id |-> req.by,
            issue_type |-> category,
            severity |-> "medium",
            status |-> "open",
            assigned_to |-> NoAssignee,
            notes |-> << Note(req.ts, req.by, "created", req.message) >>,
            created_at |-> req.ts,
            updated_at |-> req.ts ]) ]

\* Mutant of update_ticket_status_begin: the owner may set any status, not
\* only 'closed'.
update_ticket_status_begin_OwnerAnyStatus(user, ticket_id, status, now) ==
    IF status \notin TicketStatuses THEN [code |-> 400, ticketCalls |-> ticketCalls]
    ELSE IF ~oid_ok(ticket_id) THEN [code |-> 400, ticketCalls |-> ticketCalls]
    ELSE IF ticket_id \notin DOMAIN tickets THEN [code |-> 404, ticketCalls |-> ticketCalls]
    ELSE IF ~(tickets[ticket_id].user_id = user.user_id \/ require_roles(StaffRoles, user))
         THEN [code |-> 403, ticketCalls |-> ticketCalls]
    ELSE [ code |-> 0,
           ticketCalls |-> ticketCalls \cup
               { TicketCall("status", ticket_id, user.user_id, status, now) } ]

\* update_ticket_status, first step: the label check, the id parse and the
\* find_one, the two authorisation rules, then `ts = now_utc()`.  (A ticket
\* is never deleted and its owner never changes, so what find_one showed
\* still holds when the clock is read.)  Code 0: the call goes on to its
\* write.
update_ticket_status_begin(user, ticket_id, status, now) ==
    IF status \notin TicketStatuses THEN [code |-> 400, ticketCalls |-> ticketCalls]
    ELSE IF ~oid_ok(ticket_id) THEN [code |-> 400, ticketCalls |-> ticketCalls]
    ELSE IF ticket_id \notin DOMAIN tickets THEN [code |-> 404, ticketCalls |-> ticketCalls]
    ELSE LET is_owner == tickets[ticket_id].user_id = user.user_id
             is_staff == require_roles(StaffRoles, user)
         IN  IF status = "closed" /\ ~(is_owner \/ is_staff)
             THEN [code |-> 403, ticketCalls |-> ticketCalls]
             ELSE IF status # "closed" /\ ~is_staff
             THEN [code |-> 403, ticketCalls |-> ticketCalls]
             ELSE [ code |-> 0,
                    ticketCalls |-> ticketCalls \cup
                        { TicketCall("status", ticket_id, user.user_id, status, now) } ]

\* Mutant of update_ticket_status_commit: the notes are $set to the new note
\* alone instead of the note being pushed.
update_ticket_status_commit_ReplacesNotes(req) ==
    [ code |-> 200,
      tickets |-> [tickets EXCEPT
          ![req.ticket_id].status = req.message,
          ![req.ticket_id].updated_at = req.ts,
          ![req.ticket_id].notes = << Note(req.ts, req.by, "status", req.message) >>] ]

\* Its find_one_and_update.
update_ticket_status_commit(req) ==
    [ code |-> 200,
      tickets |-> [tickets EXCEPT
          ![req.ticket_id].status = req.message,
          ![req.ticket_id].updated_at = req.ts,
          ![req.ticket_id].notes = Append(@, Note(req.ts, req.by, "status", req.message))] ]

\* assign_ticket, first step: the role gate (a dependency) and `ts =
\* now_utc()`.
assign_ticket_begin(user, ticket_id, assigned_to_user_id, now) ==
    IF ~require_roles(StaffRoles, user) THEN [code |-> 403, ticketCalls |-> ticketCalls]
    ELSE [ code |-> 0,
           ticketCalls |-> ticketCalls \cup
               { TicketCall("assign", ticket_id, "staff", assigned_to_user_id, now) } ]

\* Mutant of assign_ticket_commit: the $set leaves the status out.
assign_ticket_commit_KeepsStatus(req) ==
    IF ~oid_ok(req.ticket_id) THEN [code |-> 400, tickets |-> tickets]
    ELSE IF req.ticket_id \notin DOMAIN tickets THEN [code |-> 404, tickets |-> tickets]
    ELSE [ code |-> 200,
           tickets |-> [tickets EXCEPT
               ![req.ticket_id].assigned_to = req.message,
               ![req.ticket_id].updated_at = req.ts,
               ![req.ticket_id].notes = Append(@, Note(req.ts, "staff", "assign", req.message))] ]

\* Mutant of assign_ticket_commit: a resolved or closed ticket cannot be
\* assigned.
assign_ticket_commit_OpenOnly(req) ==
    IF ~oid_ok(req.ticket_id) THEN [code |-> 400, tickets |-> tickets]
    ELSE IF req.ticket_id \notin DOMAIN tickets THEN [code |-> 404, tickets |-> tickets]
    ELSE IF tickets[req.ticket_id].status \in {"resolved", "closed"}
    THEN [code |-> 400, tickets |-> tickets]
    ELSE [ code |-> 200,
           tickets |-> [tickets EXCEPT
               ![req.ticket_id].assigned_to = req.message,
               ![req.ticket_id].status = "assigned",
               ![req.ticket_id].updated_at = req.ts,
               ![req.ticket_id].notes = Append(@, Note(req.ts, "staff", "assign", req.message))] ]

\* Mutant of assign_ticket_commit: the $push of the 'assign' note left out.
assign_ticket_commit_NoNote(req) ==
    IF ~oid_ok(req.ticket_id) THEN [code |-> 400, tickets |-> tickets]
    ELSE IF req.ticket_id \notin DOMAIN tickets THEN [code |-> 404, tickets |-> tickets]
    ELSE [ code |-> 200,
           tickets |-> [tickets EXCEPT
               ![req.ticket_id].assigned_to = req.message,
               ![req.ticket_id].status = "assigned",
               ![req.ticket_id].updated_at = req.ts] ]

\* Its id parse and find_one_and_update; 404 when nothing matched.
assign_ticket_commit(req) ==
    IF ~oid_ok(req.ticket_id) THEN [code |-> 400, tickets |-> tickets]
    ELSE IF req.ticket_id \notin DOMAIN tickets THEN [code |-> 404, tickets |-> tickets]
    ELSE [ code |-> 200,
           tickets |-> [tickets EXCEPT
               ![req.ticket_id].assigned_to = req.message,
               ![req.ticket_id].status = "assigned",
               ![req.ticket_id].updated_at = req.ts,
               ![req.ticket_id].notes = Append(@, Note(req.ts, "staff", "assign", req.message))] ]

\* Mutant of add_ticket_comment_begin: the owner-or-staff rule left out.
add_ticket_comment_begin_AnyCaller(user, ticket_id, message, now) ==
    IF ~oid_ok(ticket_id) THEN [code |-> 400, ticketCalls |-> ticketCalls]
    ELSE IF ticket_id \notin DOMAIN tickets THEN [code |-> 404, ticketCalls |-> ticketCalls]
    ELSE [ code |-> 0,
           ticketCalls |-> ticketCalls \cup
               { TicketCall("comment", ticket_id, user.user_id, message, now) } ]

\* add_ticket_comment, first step: the id parse and the find_one, the
\* owner-or-staff rule, then `ts = now_utc()`.
add_ticket_comment_begin(user, ticket_id, message, now) ==
    IF ~oid_ok(ticket_id) THEN [code |-> 400, ticketCalls |-> ticketCalls]
    ELSE IF ticket_id \notin DOMAIN tickets THEN [code |-> 404, ticketCalls |-> ticketCalls]
    ELSE LET is_owner == tickets[ticket_id].user_id = user.user_id
             is_privileged == require_roles(StaffRoles, user)
         IN  IF ~(is_owner \/ is_privileged)
             THEN [code |-> 403, ticketCalls |-> ticketCalls]
             ELSE [ code |-> 0,
                    ticketCalls |-> ticketCalls \cup
                        { TicketCall("comment", ticket_id, user.user_id, message, now) } ]

\* Its find_one_and_update.
add_ticket_comment_commit(req) ==
    [ code |-> 200,
      tickets |-> [tickets EXCEPT
          ![req.ticket_id].updated_at = req.ts,
          ![req.ticket_id].notes = Append(@, Note(req.ts, req.by, "comment", req.message))] ]

TotalTicketOps ==
    LET RECURSIVE Sum(_)
        Sum(i) == IF i = 0 THEN 0 ELSE nTicketOps[i] + Sum(i - 1)
    IN Sum(Len(nTicketOps))

\* Requests drawn by the actions: two customers open tickets; they and a
\* staff member work on them.
TicketCustomers == { p \in Principals : p.user_id \in {"u1", "u2"} }

TicketIdInputs == 0..(Len(tickets) + 1)

TicketsToCome == Cardinality({ c \in ticketCalls : c.op = "create" })

TicketOpsToCome == Cardinality({ c \in ticketCalls : c.op # "create" })

TicketCallBegun(r) ==
    /\ ticketCalls' = r.ticketCalls
    /\ UNCHANGED <<clock, tickets, nTicketOps, ordersVars, chatVars, resp>>

TicketCallCommitted(r, req) ==
    /\ tickets' = r.tickets
    /\ nTicketOps' = IF r.code = 200
                     THEN [nTicketOps EXCEPT ![req.ticket_id] = @ + 1]
                     ELSE nTicketOps
    /\ ticketCalls' = ticketCalls \ {req}
    /\ UNCHANGED <<clock, ordersVars, chatVars, resp>>

CreateTicketBegin ==
    /\ Len(tickets) + TicketsToCome < MaxTickets
    /\ Cardinality(ticketCalls) < MaxTicketCalls
    /\ \E user \in TicketCustomers :
          TicketCallBegun(create_ticket_begin(user, "speed", "slow link", clock))

CreateTicketInsert ==
    \E req \in { c \in ticketCalls : c.op = "create" } :
        /\ tickets' = create_ticket_insert(req, "speed").tickets
        /\ nTicketOps' = Append(nTicketOps, 0)
        /\ ticketCalls' = ticketCalls \ {req}
        /\ UNCHANGED <<clock, ordersVars, chatVars, resp>>

UpdateTicketStatusBegin ==
    /\ TotalTicketOps + TicketOpsToCome < MaxTicketOps
    /\ Cardinality(ticketCalls) < MaxTicketCalls
    /\ \E user \in Principals, ticket_id \in TicketIdInputs,
          status \in TicketStatusInputs :
          TicketCallBegun(update_ticket_status_begin(user, ticket_id, status, clock))

UpdateTicketStatusCommit ==
    \E req \in { c \in ticketCalls : c.op = "status" } :
        TicketCallCommitted(update_ticket_status_commit(req), req)

AssignTicketBegin ==
    /\ TotalTicketOps + TicketOpsToCome < MaxTicketOps
    /\ Cardinality(ticketCalls) < MaxTicketCalls
    /\ \E user \in Principals, ticket_id \in TicketIdInputs :
          TicketCallBegun(assign_ticket_begin(user, ticket_id, "s1", clock))

AssignTicketCommit ==
    \E req \in { c \in ticketCalls : c.op = "assign" } :
        TicketCallCommitted(assign_ticket_commit(req), req)

AddTicketCommentBegin ==
    /\ TotalTicketOps + TicketOpsToCome < MaxTicketOps
    /\ Cardinality(ticketCalls) < MaxTicketCalls
    /\ \E user \in Principals, ticket_id \in TicketIdInputs :
          TicketCallBegun(add_ticket_comment_begin(user, ticket_id, "any news?", clock))

AddTicketCommentCommit ==
    \E req \in { c \in ticketCalls : c.op = "comment" } :
        TicketCallCommitted(add_ticket_comment_commit(req), req)

-----------------------------------------------------------------------------
(* Rate limiter (core/rate_limit.py) *)

\* self._events is a defaultdict(deque): a key never seen reads as empty.
Deque(ev, key) == IF key \in DOMAIN ev THEN ev[key] ELSE << >>

SetDeque(ev, key, q) ==
    [k \in (DOMAIN ev) \cup {key} |-> IF k = key THEN q ELSE ev[k]]

\* Mutant of Evict: an event exactly window_seconds old is dropped too.
Evict_AtWindow(q, now) ==
    LET RECURSIVE Drop(_)
        Drop(r) == IF r # << >> /\ (now - Head(r)) >= WindowSeconds
                   THEN Drop(Tail(r)) ELSE r
    IN Drop(q)

\* while q and (now - q[0]) > window_seconds: q.popleft()
Evict(q, now) ==
    LET RECURSIVE Drop(_)
        Drop(r) == IF r # << >> /\ (now - Head(r)) > WindowSeconds
                   THEN Drop(Tail(r)) ELSE r
    IN Drop(q)

\* Mutant of check: an accepted call writes back a queue holding only its own
\* event (the update of a call that ran beside it is lost).
check_LosesEvents(ev, key, now) ==
    LET q == Evict(Deque(ev, key), now) IN
        IF Len(q) >= ChatRateLimitPerMinute
        THEN [code |-> 429, events |-> SetDeque(ev, key, q)]
        ELSE [code |-> 200, events |-> SetDeque(ev, key, << now >>)]

\* Mutant of check: a refused call is recorded as well.
check_CountsRefused(ev, key, now) ==
    LET q == Evict(Deque(ev, key), now) IN
        IF Len(q) >= ChatRateLimitPerMinute
        THEN [code |-> 429, events |-> SetDeque(ev, key, Append(q, now))]
        ELSE [code |-> 200, events |-> SetDeque(ev, key, Append(q, now))]

\* InMemoryRateLimiter.check: `now = time.time()`, evict, then refuse with
\* 429 or record `now`.  The eviction is kept also when the call is refused.
\* The method has no await and only chat_send calls it, so on the event loop
\* it runs as one step.
check(ev, key, now) ==
    LET q == Evict(Deque(ev, key), now) IN
        IF Len(q) >= ChatRateLimitPerMinute
        THEN [code |-> 429, events |-> SetDeque(ev, key, q)]
        ELSE [code |-> 200, events |-> SetDeque(ev, key, Append(q, now))]

-----------------------------------------------------------------------------
(* Chat router *)

ChatUsers == { p \in Principals : p.user_id \in {"u1", "u2"} }

NoPayload == "null"

\* What the AI reply service may answer to one POST /webhook.
\*   kind    "transport" | "timeout" (httpx raises) | "http" (a response)
\*   status  the HTTP status of the response
\*   body    "nonjson" | "array" (JSON, not an object) | "object"
\*   reply   whether the object has a `reply` field
\*   actions its `suggested_actions`: "absent", "string" (not a list),
\*           "empty" ([]), "dicts" (a list of objects), "strings" (a list of
\*           non-objects)
AiResponse(kind, status, body, reply, actions) ==
    [kind |-> kind, status |-> status, body |-> body, reply |-> reply, actions |-> actions]

AiResponses ==
    { AiResponse("transport", 0, "nonjson", FALSE, "absent"),
      AiResponse("timeout", 0, "nonjson", FALSE, "absent"),
      AiResponse("http", 500, "object", TRUE, "absent"),
      AiResponse("http", 400, "nonjson", FALSE, "absent"),
      AiResponse("http", 200, "nonjson", FALSE, "absent"),
      AiResponse("http", 200, "array", FALSE, "absent"),
      AiResponse("http", 200, "object", FALSE, "dicts"),
      AiResponse("http", 200, "object", TRUE, "absent"),
      AiResponse("http", 200, "object", TRUE, "string"),
      AiResponse("http", 200, "object", TRUE, "empty"),
      AiResponse("http", 200, "object", TRUE, "dicts"),
      AiResponse("http", 200, "object", TRUE, "strings") }

\* How the AI call went, as the service's answer shows it: "transport",
\* "timeout", "status" (>= 400), "nonjson", "noreply" (JSON that is not an
\* object, or an object without `reply`), or "replied".
FailureMode(response) ==
    IF response.kind # "http" THEN response.kind
    ELSE IF response.status >= 400 THEN "status"
    ELSE IF response.body = "nonjson" THEN "nonjson"
    ELSE IF response.body = "array" \/ ~response.reply THEN "noreply"
    ELSE "replied"

\* _call_ai_engine: what the coroutine does with the service's answer.
\*   "data"            returns the parsed object
\*   "http_exception"  raises HTTPException(502)
\*   "raised"          an httpx exception (client.post) or a JSON decode
\*                     error (resp.json()) propagates: no handler catches
\*                     it, so the application answers 500
call_ai_engine(response) ==
    IF response.kind # "http" THEN [outcome |-> "raised", code |-> 500]
    ELSE IF response.status >= 400 THEN [outcome |-> "http_exception", code |-> 502]
    ELSE IF response.body = "nonjson" THEN [outcome |-> "raised", code |-> 500]
    ELSE IF response.body # "object" \/ ~response.reply
         THEN [outcome |-> "http_exception", code |-> 502]
    ELSE [outcome |-> "data", code |-> 200]

\* The conversations find_one({"user_id": ...}, sort last_message_at desc)
\* may return: the user's conversations of greatest last_message_at.
find_conversation(convs, user_id) ==
    { c \in DOMAIN convs :
        /\ convs[c].user_id = user_id
        /\ \A o \in DOMAIN convs :
              convs[o].user_id = user_id =>
                  convs[o].last_message_at <= convs[c].last_message_at }

\* Mutant of FoundConversations: the lookup may miss a conversation (as if it
\* ran before the insert of a send handled beside it).
FoundConversations_MayMiss(user_id) ==
    {0} \cup find_conversation(conversations, user_id)

\* What find_one may hand to the handler: one of the documents of greatest
\* last_message_at, or None (0) when the user has no conversation.
FoundConversations(user_id) ==
    IF find_conversation(conversations, user_id) = {} THEN {0}
    ELSE find_conversation(conversations, user_id)

\* A chat_send coroutine past the rate-limit check, with its locals:
\*   pc       where it stands: "conv_clock", "conv_insert" (in
\*            _get_or_create_conversation), "store_clock", "store_insert",
\*            "store_touch" (in _store_message), "await" (suspended at
\*            `await client.post`)
\*   turn     which _store_message call it is in or will make next
\*   conv_id, message_id, reply_id   0 until known
\*   ts       the clock value it read last
\*   actions  suggested_actions as normalised after the AI call
Coroutine(user_id, pc, context, conv_id) ==
    [ user_id |-> user_id, pc |-> pc, turn |-> "user", context |-> context,
      conv_id |-> conv_id, ts |-> 0, message_id |-> 0, reply_id |-> 0,
      actions |-> "empty" ]

\* Mutant of chat_send_begin: a refused check does not stop the send.
chat_send_begin_CheckIgnored(user, context, found, now) ==
    LET rl == check(events, user.user_id, now) IN
        [ code |-> IF rl.code # 200 THEN 429 ELSE 0, events |-> rl.events,
          pending |-> pending \cup
              { Coroutine(user.user_id,
                          IF found = 0 THEN "conv_clock" ELSE "store_clock",
                          context, found) } ]

\* Mutant of chat_send_begin: every send opens a conversation.
chat_send_begin_AlwaysNew(user, context, found, now) ==
    LET rl == check(events, user.user_id, now) IN
    IF rl.code # 200
    THEN [code |-> 429, events |-> rl.events, pending |-> pending]
    ELSE [ code |-> 0, events |-> rl.events,
           pending |-> pending \cup
               { Coroutine(user.user_id, "conv_clock", context, 0) } ]

\* chat_send, first step: _rate_limiter.check(user.user_id) and the find_one
\* of _get_or_create_conversation, `found` being the document it returned
\* (0 for None).  No other coroutine runs before this one awaits, so no
\* conversation can appear between the two.  Code 0: the send goes on.
chat_send_begin(user, context, found, now) ==
    LET rl == check(events, user.user_id, now) IN
    IF rl.code # 200
    THEN [code |-> 429, events |-> rl.events, pending |-> pending]
    ELSE [ code |-> 0, events |-> rl.events,
           pending |-> pending \cup
               { Coroutine(user.user_id,
                           IF found = 0 THEN "conv_clock" ELSE "store_clock",
                           context, found) } ]

\* _get_or_create_conversation: ts = now_utc()
get_or_create_conversation_clock(p, now) ==
    [ code |-> 0,
      pending |-> Moved(pending, p, [p EXCEPT !.pc = "conv_insert", !.ts = now]) ]

\* _get_or_create_conversation: insert_one, and the document read back.
get_or_create_conversation_insert(p) ==
    [ code |-> 0,
      conversations |-> Append(conversations,
          [user_id |-> p.user_id, started_at |-> p.ts, last_message_at |-> p.ts]),
      pending |-> Moved(pending, p,
          [p EXCEPT !.pc = "store_clock", !.conv_id = Len(conversations) + 1]) ]

\* _store_message: ts = now_utc()
store_message_clock(p, now) ==
    [ code |-> 0,
      pending |-> Moved(pending, p, [p EXCEPT !.pc = "store_insert", !.ts = now]) ]

\* _store_message: messages.insert_one.  The user's message carries the
\* request's context as payload, the AI's message the suggested actions
\* when there are any.
store_message_insert(p) ==
    LET id == Len(messages) + 1 IN
    [ code |-> 0,
      messages |-> Append(messages,
          [ conversation_id |-> p.conv_id,
            sender |-> p.turn,
            text |-> IF p.turn = "user" THEN "hi" ELSE "reply",
            payload |-> IF p.turn = "user" THEN p.context
                        ELSE IF p.actions # "empty" THEN p.actions ELSE NoPayload,
            created_at |-> p.ts ]),
      pending |-> Moved(pending, p,
          IF p.turn = "user"
          THEN [p EXCEPT !.pc = "store_touch", !.message_id = id]
          ELSE [p EXCEPT !.pc = "store_touch", !.reply_id = id]) ]

\* Mutant of store_message_touch: only a user's message advances
\* last_message_at.
store_message_touch_UserOnly(p) ==
    IF p.turn = "user"
    THEN [ code |-> 0,
           conversations |-> [conversations EXCEPT ![p.conv_id].last_message_at = p.ts],
           pending |-> Moved(pending, p, [p EXCEPT !.pc = "await"]),
           aiCalls |-> aiCalls + 1,
           body |-> NoPayload ]
    ELSE [ code |-> IF p.actions = "strings" THEN 500 ELSE 200,
           conversations |-> conversations,
           pending |-> pending \ {p},
           aiCalls |-> aiCalls,
           body |-> IF p.actions = "strings" THEN NoPayload
                    ELSE [ reply |-> "reply",
                           suggested_actions |-> p.actions,
                           conversation_id |-> p.conv_id,
                           message_id |-> p.message_id,
                           reply_message_id |-> p.reply_id ] ]

\* _store_message: conversations.update_one sets last_message_at, and the
\* message is read back.  After the user's message chat_send posts the
\* request to the AI service and is suspended at `await client.post`. After
\* the AI's message it builds ChatSendOut and returns: ChatSendOut types the
\* actions as List[Dict], so a list of non-objects fails its validation
\* (500) after the store.  `body` is the ChatSendOut returned with a 200.
store_message_touch(p) ==
    IF p.turn = "user"
    THEN [ code |-> 0,
           conversations |-> [conversations EXCEPT ![p.conv_id].last_message_at = p.ts],
           pending |-> Moved(pending, p, [p EXCEPT !.pc = "await"]),
           aiCalls |-> aiCalls + 1,
           body |-> NoPayload ]
    ELSE [ code |-> IF p.actions = "strings" THEN 500 ELSE 200,
           conversations |-> [conversations EXCEPT ![p.conv_id].last_message_at = p.ts],
           pending |-> pending \ {p},
           aiCalls |-> aiCalls,
           body |-> IF p.actions = "strings" THEN NoPayload
                    ELSE [ reply |-> "reply",
                           suggested_actions |-> p.actions,
                           conversation_id |-> p.conv_id,
                           message_id |-> p.message_id,
                           reply_message_id |-> p.reply_id ] ]

\* Mutant of chat_send_resume: a `suggested_actions` that is not a list is
\* handed on as it is.
chat_send_resume_KeepsNonList(p, response) ==
    LET ai == call_ai_engine(response) IN
    IF ai.outcome # "data"
    THEN [code |-> ai.code, pending |-> pending \ {p}]
    ELSE [ code |-> 0,
           pending |-> Moved(pending, p,
               [p EXCEPT !.pc = "store_clock", !.turn = "ai",
                         !.actions = IF response.actions = "absent"
                                     THEN "empty" ELSE response.actions]) ]

\* Mutant of chat_send_resume: when the AI call fails the send goes on to
\* store a placeholder 'ai' message.
chat_send_resume_StoreOnError(p, response) ==
    LET ai == call_ai_engine(response) IN
        [ code |-> IF ai.outcome # "data" THEN ai.code ELSE 0,
          pending |-> Moved(pending, p,
              [p EXCEPT !.pc = "store_clock", !.turn = "ai",
                        !.actions = IF ai.outcome = "data"
                                       /\ response.actions \in {"dicts", "strings"}
                                    THEN response.actions ELSE "empty"]) ]

\* chat_send when the AI service has answered: a failure of the call ends
\* the request; otherwise `suggested_actions or []` and the isinstance check
\* turn an absent, empty or non-list value into [], and the send goes on to
\* store the reply.
chat_send_resume(p, response) ==
    LET ai == call_ai_engine(response) IN
    IF ai.outcome # "data"
    THEN [code |-> ai.code, pending |-> pending \ {p}]
    ELSE [ code |-> 0,
           pending |-> Moved(pending, p,
               [p EXCEPT !.pc = "store_clock", !.turn = "ai",
                         !.actions = IF response.actions \in {"dicts", "strings"}
                                     THEN response.actions ELSE "empty"]) ]

\* The ids of the messages of `conv_id` below `cursor`, newest first, at
\* most `limit`: find(q).sort("_id", -1).limit(limit)
FindMessagesDesc(msgs, conv_id, cursor, limit) ==
    LET RECURSIVE Scan(_, _)
        Scan(i, n) ==
            IF i = 0 \/ n = 0 THEN << >>
            ELSE IF msgs[i].conversation_id = conv_id
                    /\ (cursor = NoCursor \/ i < cursor)
                 THEN <<i>> \o Scan(i - 1, n - 1)
                 ELSE Scan(i - 1, n)
    IN Scan(Len(msgs), limit)

Reversed(s) == [i \in 1..Len(s) |-> s[Len(s) + 1 - i]]

\* Mutant of chat_history: next_cursor names the newest message of the page.
chat_history_NewestCursor(user, limit, cursor, found) ==
    IF found = 0
    THEN [code |-> 200, conversation_id |-> 0, messages |-> << >>, next_cursor |-> NoCursor]
    ELSE IF cursor # NoCursor /\ ~oid_ok(cursor)
    THEN [code |-> 400, conversation_id |-> 0, messages |-> << >>, next_cursor |-> NoCursor]
    ELSE LET docs == Reversed(FindMessagesDesc(messages, found, cursor, limit))
         IN [ code |-> 200, conversation_id |-> found, messages |-> docs,
              next_cursor |-> IF docs # << >> /\ Len(docs) = limit
                              THEN docs[Len(docs)] ELSE NoCursor ]

\* Mutant of chat_history: the cursor is inclusive ($lte).
chat_history_Inclusive(user, limit, cursor, found) ==
    IF found = 0
    THEN [code |-> 200, conversation_id |-> 0, messages |-> << >>, next_cursor |-> NoCursor]
    ELSE IF cursor # NoCursor /\ ~oid_ok(cursor)
    THEN [code |-> 400, conversation_id |-> 0, messages |-> << >>, next_cursor |-> NoCursor]
    ELSE LET docs == Reversed(FindMessagesDesc(messages, found,
                         IF cursor = NoCursor THEN cursor ELSE cursor + 1, limit))
         IN [ code |-> 200, conversation_id |-> found, messages |-> docs,
              next_cursor |-> IF docs # << >> /\ Len(docs) = limit
                              THEN docs[1] ELSE NoCursor ]

\* chat_history, given the conversation `found` that find_one returned
\* (0 for None).  The page lists message ids; an empty conversation id is 0
\* and a null next_cursor is NoCursor.  The handler reads only: without a
\* conversation it returns at once, and a conversation found is still what
\* find_one would return when the messages are read, so its two reads are
\* taken as one step.
chat_history(user, limit, cursor, found) ==
    IF found = 0
    THEN [code |-> 200, conversation_id |-> 0, messages |-> << >>, next_cursor |-> NoCursor]
    ELSE IF cursor # NoCursor /\ ~oid_ok(cursor)
    THEN [code |-> 400, conversation_id |-> 0, messages |-> << >>, next_cursor |-> NoCursor]
    ELSE LET docs == Reversed(FindMessagesDesc(messages, found, cursor, limit))
         IN [ code |-> 200, conversation_id |-> found, messages |-> docs,
              next_cursor |-> IF docs # << >> /\ Len(docs) = limit
                              THEN docs[1] ELSE NoCursor ]

ContextInputs == {NoPayload, "ctx"}

\* u1 sends its messages with a context, u2 without one.
ContextOf(user) == IF user.user_id = "u1" THEN "ctx" ELSE NoPayload

\* Requests drawn by the actions.  chat_history changes nothing, so a few
\* requests stand for all of them: a full page from the newest message, a
\* page below the newest message, a malformed cursor.
HistoryLimits == 1..MaxHistoryLimit

CursorInputs == {NoCursor, MalformedId, Len(messages)}

\* The coroutine the event loop is running: one that is not suspended at
\* its await.  The loop takes up a new request or resumes a suspended send
\* only when it runs none.
Running == { p \in pending : p.pc # "await" }

\* Messages the sends under way are about to store: the user's message of a
\* send that has not stored it yet, the AI's message of a send whose AI call
\* has succeeded.
MessagesToCome ==
    Cardinality({ p \in pending : p.message_id = 0 })
        + Cardinality({ p \in pending : p.turn = "ai" /\ p.reply_id = 0 })

ChatSendBegin ==
    /\ Running = {}
    /\ \E user \in ChatUsers :
        \E found \in FoundConversations(user.user_id) :
          LET r == chat_send_begin(user, ContextOf(user), found, clock) IN
            \* the bounds stop only a send that would store a message
            /\ r.code # 429 =>
                  /\ Len(messages) + MessagesToCome < MaxMessages
                  /\ Cardinality(pending) < MaxPending
            /\ events' = r.events
            /\ accepted' = IF r.code = 429 THEN accepted
                            ELSE SetDeque(accepted, user.user_id,
                                          Append(Deque(accepted, user.user_id), clock))
            /\ pending' = r.pending
            /\ resp' = Response("chatSend", user.user_id, r.code, "none")
    /\ UNCHANGED <<clock, ordersVars, ticketsVars, conversations, messages, aiCalls>>

GetOrCreateConversationClock ==
    /\ \E p \in { c \in pending : c.pc = "conv_clock" } :
          /\ pending' = get_or_create_conversation_clock(p, clock).pending
          /\ resp' = Response("chatSend", p.user_id, 0, "none")
    /\ UNCHANGED <<clock, ordersVars, ticketsVars, events, accepted, conversations,
                   messages, aiCalls>>

GetOrCreateConversationInsert ==
    /\ \E p \in { c \in pending : c.pc = "conv_insert" } :
          LET r == get_or_create_conversation_insert(p) IN
            /\ conversations' = r.conversations
            /\ pending' = r.pending
            /\ resp' = Response("chatSend", p.user_id, 0, "none")
    /\ UNCHANGED <<clock, ordersVars, ticketsVars, events, accepted, messages, aiCalls>>

StoreMessageClock ==
    /\ \E p \in { c \in pending : c.pc = "store_clock" } :
          /\ pending' = store_message_clock(p, clock).pending
          /\ resp' = Response("chatSend", p.user_id, 0,
                              IF p.turn = "ai" THEN "replied" ELSE "none")
    /\ UNCHANGED <<clock, ordersVars, ticketsVars, events, accepted, conversations,
                   messages, aiCalls>>

StoreMessageInsert ==
    /\ \E p \in { c \in pending : c.pc = "store_insert" } :
          LET r == store_message_insert(p) IN
            /\ messages' = r.messages
            /\ pending' = r.pending
            /\ resp' = Response("chatSend", p.user_id, 0,
                                IF p.turn = "ai" THEN "replied" ELSE "none")
    /\ UNCHANGED <<clock, ordersVars, ticketsVars, events, accepted, conversations,
                   aiCalls>>

StoreMessageTouch ==
    /\ \E p \in { c \in pending : c.pc = "store_touch" } :
          LET r == store_message_touch(p) IN
            /\ conversations' = r.conversations
            /\ pending' = r.pending
            /\ aiCalls' = r.aiCalls
            /\ resp' = Response("chatSend", p.user_id, r.code,
                                IF p.turn = "ai" THEN "replied" ELSE "none")
    /\ UNCHANGED <<clock, ordersVars, ticketsVars, events, accepted, messages>>

ChatSendResume ==
    /\ Running = {}
    /\ \E p \in pending, response \in AiResponses :
          LET r == chat_send_resume(p, response) IN
            \* the bound stops only an answer that leads to a stored message
            /\ r.code = 0 => Len(messages) + MessagesToCome < MaxMessages
            /\ pending' = r.pending
            /\ resp' = Response("chatSend", p.user_id, r.code, FailureMode(response))
    /\ UNCHANGED <<clock, ordersVars, ticketsVars, events, accepted, conversations,
                   messages, aiCalls>>

ChatHistory ==
    /\ \E user \in ChatUsers, limit \in {MaxHistoryLimit}, cursor \in CursorInputs :
        \E found \in FoundConversations(user.user_id) :
          chat_history(user, limit, cursor, found).code \in {200, 400}
    /\ UNCHANGED vars

-----------------------------------------------------------------------------
(* Initial state: the store as core/seed.py leaves it at startup *)

SeedPlans ==
    [ p \in 1..3 |->
        CASE p = 1 -> [price |-> 699,  status |-> "ACTIVE"]
          [] p = 2 -> [price |-> 999,  status |-> "ACTIVE"]
          [] OTHER -> [price |-> 1499, status |-> "ACTIVE"] ]

SeedEngineers ==
    [ e \in {"e1", "e2"} |->
        IF e = "e1"
        THEN [status |-> "ACTIVE", areas |-> {"560034"},
              skills |-> {"install", "support"}, workload |-> 0, updated_at |-> 0]
        ELSE [status |-> "ACTIVE", areas |-> {"560001", "560034"},
              skills |-> {"install"}, workload |-> 0, updated_at |-> 0] ]

Init ==
    /\ clock = 0
    /\ plans = SeedPlans
    /\ engineers = SeedEngineers
    /\ orders = << >>
    /\ nUpdates = << >>
    /\ inflight = {}
    /\ creating = {}
    /\ tickets = << >>
    /\ nTicketOps = << >>
    /\ ticketCalls = {}
    /\ events = [k \in {} |-> << >>]
    /\ accepted = [k \in {} |-> << >>]
    /\ conversations = << >>
    /\ messages = << >>
    /\ pending = {}
    /\ aiCalls = 0
    /\ resp = Response("init", "none", 0, "none")

\* The orders router: every call a sequence of steps on its worker thread.
NextOrders ==
    \/ CreateOrderBegin
    \/ CreateOrderClock
    \/ CreateOrderPick
    \/ CreateOrderInsert
    \/ CreateOrderInc
    \/ UpdateOrderStatusBegin
    \/ UpdateOrderStatusCommit
    \/ GetOrderById
    \/ Tick(OrdersMaxClock)

SpecOrders == Init /\ [][NextOrders]_vars

\* The orders router beside a plan catalogue that is being maintained.
NextCatalogue ==
    \/ CreateOrderBegin
    \/ CreateOrderClock
    \/ CreateOrderPick
    \/ CreateOrderInsert
    \/ CreateOrderInc
    \/ UpdateOrderStatusBegin
    \/ UpdateOrderStatusCommit
    \/ GetOrderById
    \/ Tick(OrdersMaxClock)
    \/ RepricePlan
    \/ RetirePlan

SpecCatalogue == Init /\ [][NextCatalogue]_vars

\* The orders router beside a roster that is being maintained.
NextRoster ==
    \/ CreateOrderBegin
    \/ CreateOrderClock
    \/ CreateOrderPick
    \/ CreateOrderInsert
    \/ CreateOrderInc
    \/ UpdateOrderStatusBegin
    \/ UpdateOrderStatusCommit
    \/ GetOrderById
    \/ Tick(OrdersMaxClock)
    \/ DeactivateEngineer

SpecRoster == Init /\ [][NextRoster]_vars

\* The tickets router: every call a sequence of steps on its worker thread.
NextTickets ==
    \/ CreateTicketBegin
    \/ CreateTicketInsert
    \/ UpdateTicketStatusBegin
    \/ UpdateTicketStatusCommit
    \/ AssignTicketBegin
    \/ AssignTicketCommit
    \/ AddTicketCommentBegin
    \/ AddTicketCommentCommit
    \/ Tick(TicketsMaxClock)

SpecTickets == Init /\ [][NextTickets]_vars

\* The chat router: the sends on the event loop, the history reads on
\* worker threads.
NextChat ==
    \/ ChatSendBegin
    \/ GetOrCreateConversationClock
    \/ GetOrCreateConversationInsert
    \/ StoreMessageClock
    \/ StoreMessageInsert
    \/ StoreMessageTouch
    \/ ChatSendResume
    \/ ChatHistory
    \/ Tick(ChatMaxClock)

SpecChat == Init /\ [][NextChat]_vars

\* The three routers side by side on one store.  The number of documents
\* and of status / assign / comment calls is kept small here: the routers
\* meet only in the database they share.  A call that has begun runs on.
ServiceDocs ==
    Len(orders) + OrdersToCome + Len(tickets) + TicketsToCome
        + Len(messages) + MessagesToCome

ServiceOps ==
    TotalOrderUpdates + Cardinality(inflight) + TotalTicketOps + TicketOpsToCome

ServiceCalls ==
    Cardinality(creating) + Cardinality(inflight) + Cardinality(ticketCalls)
        + Cardinality(pending)

DocCallAdmitted == ServiceDocs < MaxServiceDocs /\ ServiceCalls < MaxServiceCalls

OpCallAdmitted == ServiceOps < MaxServiceOps /\ ServiceCalls < MaxServiceCalls

NextService ==
    \/ DocCallAdmitted /\ CreateOrderBegin
    \/ CreateOrderClock
    \/ CreateOrderPick
    \/ CreateOrderInsert
    \/ CreateOrderInc
    \/ OpCallAdmitted /\ UpdateOrderStatusBegin
    \/ UpdateOrderStatusCommit
    \/ DocCallAdmitted /\ CreateTicketBegin
    \/ CreateTicketInsert
    \/ OpCallAdmitted /\ UpdateTicketStatusBegin
    \/ UpdateTicketStatusCommit
    \/ OpCallAdmitted /\ AssignTicketBegin
    \/ AssignTicketCommit
    \/ OpCallAdmitted /\ AddTicketCommentBegin
    \/ AddTicketCommentCommit
    \/ DocCallAdmitted /\ ChatSendBegin
    \/ GetOrCreateConversationClock
    \/ GetOrCreateConversationInsert
    \/ StoreMessageClock
    \/ StoreMessageInsert
    \/ StoreMessageTouch
    \/ ChatSendResume
    \/ Tick(OrdersMaxClock)

SpecService == Init /\ [][NextService]_vars


-----------------------------------------------------------------------------
(* Claims about the orders router, checked under SpecOrders *)

\* C1: for every order, the timeline has one entry for the creation plus one
\* per successful updateStatus on that order, its first entry is 'scheduled',
\* and the order's status is the status of the last entry.
C1_TimelineTracksStatus ==
    \A i \in DOMAIN orders :
        /\ Len(orders[i].timeline) = 1 + nUpdates[i]
        /\ orders[i].timeline[1].status = "scheduled"
        /\ orders[i].status = orders[i].timeline[Len(orders[i].timeline)].status

\* An order updated twice, last to 'completed'.
C1_Witness ==
    \E i \in DOMAIN orders :
        /\ nUpdates[i] = 2
        /\ orders[i].status = "completed"
        /\ orders[i].timeline[2].status = "in_progress"

\* Eligibility as the claims state it: ACTIVE, install-skilled, serving the pincode.
ClaimEligible(e, pincode) ==
    /\ engineers[e].status = "ACTIVE"
    /\ "install" \in engineers[e].skills
    /\ pincode \in engineers[e].areas

ActivePlanIds == { p \in DOMAIN plans : plans[p].status = "ACTIVE" }

ClaimIsStaff(p) == p.roles \cap {"admin", "agent", "engineer"} # {}

\* The call numbered `n` among `calls`.
ClaimCall(calls, n) == CHOOSE c \in calls : c.call = n

\* A placement for `pincode` that has come to its engineer lookup just now
\* (no call under way carries the number 0).
ClaimPlacement(pincode) ==
    [ call |-> 0, pc |-> "pick", user_id |-> "u1", plan_id |-> 1,
      pincode |-> pincode, price |-> plans[1].price, ts |-> clock,
      engineer |-> NoEngineer, workload |-> 0 ]

\* An update of order `order_id` to `status` that has read the clock just now.
ClaimUpdate(order_id, status) ==
    [call |-> 0, order_id |-> order_id, status |-> status, ts |-> clock]

\* C8: when no engineer is eligible for the pincode, createOrder with an ACTIVE
\* plan is not refused and its engineer lookup finds nobody; the insert of a
\* placement that found nobody ends the call with 200, the order stored as
\* 'scheduled' with no engineer and a one-entry timeline beside the orders
\* there were.  The step that stores an unassigned order ends the call and
\* leaves every engineer document as it was (no increment follows).
C8_UnassignedOrderCreated ==
    /\ [](/\ \A pincode \in Pincodes :
              (~ \E o \in DOMAIN engineers : ClaimEligible(o, pincode)) =>
                /\ \A user \in AllPrincipals, plan_id \in ActivePlanIds :
                      create_order_begin(user, plan_id, pincode).code = 0
                /\ \A req \in { c \in creating : c.pc = "pick" /\ c.pincode = pincode }
                                  \cup { ClaimPlacement(pincode) } :
                      \A r \in create_order_pick(req) :
                          /\ ClaimCall(r.creating, req.call).engineer = NoEngineer
                          /\ ClaimCall(r.creating, req.call).pc = "insert"
           /\ \A req \in { c \in creating : c.pc = "insert" /\ c.engineer = NoEngineer }
                             \cup { [ClaimPlacement(p) EXCEPT !.pc = "insert"] :
                                        p \in Pincodes } :
                 LET i == create_order_insert(req) IN
                     /\ i.code = 200
                     /\ i.creating = creating \ {req}
                     /\ Len(i.orders) = Len(orders) + 1
                     /\ SubSeq(i.orders, 1, Len(orders)) = orders
                     /\ Last(i.orders).status = "scheduled"
                     /\ Last(i.orders).assigned_engineer_id = NoEngineer
                     /\ Len(Last(i.orders).timeline) = 1)
    /\ [][ ( /\ Len(orders') = Len(orders) + 1
             /\ Last(orders').assigned_engineer_id = NoEngineer )
           => /\ engineers' = engineers
              /\ \E c \in creating : c.pc = "insert" /\ creating' = creating \ {c} ]_vars

\* An unassigned order for a pincode no install engineer serves, stored after
\* another order had been assigned; no placement is under way.
C8_Witness ==
    /\ creating = {}
    /\ \E i, j \in DOMAIN orders :
        /\ i < j
        /\ orders[i].assigned_engineer_id # NoEngineer
        /\ orders[j].pincode = "110001"
        /\ orders[j].assigned_engineer_id = NoEngineer
        /\ orders[j].status = "scheduled"
        /\ \A e \in DOMAIN engineers : engineers[e].workload <= 1

\* C12: whatever updateStatus is asked in a reachable state, a caller without
\* a staff role (the owner included) gets 403 and a staff caller with an
\* unknown label 400, and neither goes on to a write; a staff caller with a
\* known label goes on with the time it has read.  The write of a call that
\* went on answers 404 for a well-formed id of no order (400 for a malformed
\* id) and leaves the orders as they were, or appends exactly the entry
\* {status, the time read, 'staff'} to the order addressed, sets its status
\* and updated_at, and changes no other order.
C12_UpdateStatusGated ==
    /\ \A user \in AllPrincipals, order_id \in 0..(Len(orders) + 1),
          status \in OrderStatuses \cup {"closed", "bogus"} :
          LET b == update_order_status_begin(user, order_id, status, clock)
              staff == ClaimIsStaff(user)
              known == status \in {"scheduled", "in_progress", "completed", "cancelled"}
          IN  /\ ~staff => b.code = 403 /\ b.inflight = inflight
              /\ (staff /\ ~known) => b.code = 400 /\ b.inflight = inflight
              /\ (staff /\ known) =>
                    /\ b.code = 0
                    /\ b.inflight = inflight \cup
                          { [ClaimUpdate(order_id, status) EXCEPT !.call = NextInflightCall] }
    /\ \A req \in inflight \cup { ClaimUpdate(i, s) : i \in 0..(Len(orders) + 1),
                                                      s \in OrderStatuses } :
          LET r == update_order_status_commit(req) IN
              /\ req.status \in {"scheduled", "in_progress", "completed", "cancelled"}
              /\ req.order_id \notin DOMAIN orders =>
                    /\ r.code = IF req.order_id = MalformedId THEN 400 ELSE 404
                    /\ r.orders = orders
              /\ req.order_id \in DOMAIN orders =>
                    /\ r.code = 200
                    /\ Len(r.orders) = Len(orders)
                    /\ \A j \in DOMAIN orders :
                          IF j = req.order_id
                          THEN /\ r.orders[j].timeline =
                                      Append(orders[j].timeline,
                                             [status |-> req.status, ts |-> req.ts,
                                              by |-> "staff"])
                               /\ r.orders[j].status = req.status
                               /\ r.orders[j].updated_at = req.ts
                          ELSE r.orders[j] = orders[j]

\* An order of u1 that staff has updated once: its owner is refused, a staff
\* member is refused for an unknown label, and the write of a staff call for
\* the id of no order answers 404.
C12_Witness ==
    \E i \in DOMAIN orders :
        LET owner == [user_id |-> "u1", roles |-> {"user"}]
            agent == [user_id |-> "s1", roles |-> {"agent"}]
        IN  /\ orders[i].user_id = "u1"
            /\ Len(orders[i].timeline) = 2
            /\ orders[i].timeline[2] = [status |-> "cancelled", ts |-> clock, by |-> "staff"]
            /\ update_order_status_begin(owner, i, "completed", clock).code = 403
            /\ update_order_status_begin(agent, i, "closed", clock).code = 400
            /\ update_order_status_begin(agent, Len(orders) + 1, "completed", clock).code = 0
            /\ update_order_status_commit(ClaimUpdate(Len(orders) + 1, "completed")).code = 404

\* C13: for every stored order, whatever its current status, and every one
\* of the four labels (the current one included), updateStatus by a staff
\* principal is not refused and its write succeeds, sets the status to the
\* label and appends one timeline entry carrying it; so does the write of
\* every update under way.
C13_TransitionsUnrestricted ==
    /\ \A i \in DOMAIN orders :
        /\ orders[i].status \in {"scheduled", "in_progress", "completed", "cancelled"}
        /\ \A t \in {"scheduled", "in_progress", "completed", "cancelled"} :
              /\ \A user \in { p \in AllPrincipals : ClaimIsStaff(p) } :
                    update_order_status_begin(user, i, t, clock).code = 0
              /\ LET r == update_order_status_commit(ClaimUpdate(i, t)) IN
                      /\ r.code = 200
                      /\ r.orders[i].status = t
                      /\ Len(r.orders[i].timeline) = Len(orders[i].timeline) + 1
                      /\ Last(r.orders[i].timeline).status = t
    /\ \A req \in inflight :
          req.order_id \in DOMAIN orders =>
              LET r == update_order_status_commit(req) IN
                  /\ r.code = 200
                  /\ r.orders[req.order_id].status = req.status
                  /\ Last(r.orders[req.order_id].timeline).status = req.status

\* An order moved to completed twice in a row (t = s on a terminal status)
\* that staff may still take back to scheduled.
C13_Witness ==
    \E i \in DOMAIN orders :
        /\ Len(orders[i].timeline) = 3
        /\ orders[i].timeline[2].status = "completed"
        /\ orders[i].timeline[3].status = "completed"
        /\ update_order_status_commit(ClaimUpdate(i, "scheduled")).orders[i].status
              = "scheduled"

\* C18 (as claimed): in every order's timeline and every ticket's notes the
\* timestamps never decrease from one entry to the next, also when two
\* updates of one document run side by side.
C18_AuditTimestampsOrdered ==
    /\ \A i \in DOMAIN orders :
          \A k \in 1..(Len(orders[i].timeline) - 1) :
              orders[i].timeline[k].ts <= orders[i].timeline[k + 1].ts
    /\ \A i \in DOMAIN tickets :
          \A k \in 1..(Len(tickets[i].notes) - 1) :
              tickets[i].notes[k].ts <= tickets[i].notes[k + 1].ts

\* C25: getOrderById returns an order only to its owner or to a principal
\* holding the role admin or agent; every other principal gets 403, and a
\* well-formed id of no order gets 404.
C25_OnlyOwnerAdminAgent ==
    \A user \in AllPrincipals, order_id \in 1..(Len(orders) + 1) :
        LET r == get_order_by_id(user, order_id) IN
            IF order_id \notin DOMAIN orders
            THEN r.code = 404
            ELSE IF \/ orders[order_id].user_id = user.user_id
                    \/ require_roles({"admin", "agent"}, user)
                 THEN r.code = 200 /\ r.doc = order_id
                 ELSE r.code = 403

\* Orders assigned to engineer `e`, and placements that have inserted such
\* an order and not yet incremented.
ClaimAssignedTo(e) ==
    Cardinality({ o \in DOMAIN orders : orders[o].assigned_engineer_id = e })

ClaimAwaitingInc(e) ==
    Cardinality({ c \in creating : c.pc = "inc" /\ c.engineer = e })

\* C26: no workload increment is lost whatever the interleaving of the
\* placements: each engineer's workload is its initial workload (0 for the
\* seeded engineers) plus the number of orders assigned to it, less the
\* placements that have inserted their order and not yet incremented; so
\* when no placement is in flight the workload equals the initial workload
\* plus the number of orders assigned.
C26_NoIncrementLost ==
    /\ \A e \in DOMAIN engineers :
          engineers[e].workload = ClaimAssignedTo(e) - ClaimAwaitingInc(e)
    /\ creating = {} =>
          \A e \in DOMAIN engineers : engineers[e].workload = ClaimAssignedTo(e)

\* Two placements for 560034 that overlapped: both read e1 at workload 0,
\* both have inserted and incremented, and e1 stands at 2.
C26_Witness ==
    /\ creating = {}
    /\ Len(orders) = 2
    /\ \A o \in DOMAIN orders :
          orders[o].pincode = "560034" /\ orders[o].assigned_engineer_id = "e1"
    /\ orders[1].created_at < orders[2].created_at
    /\ engineers["e1"].workload = 2

\* C27 (as claimed): starting from e1 and e2, the two engineers eligible for
\* 560034, at equal workload, once the placements (all for 560034) have
\* completed the two workloads differ by at most 1.
C27_BalancedUnderConcurrency ==
    ( /\ creating = {}
      /\ \A o \in DOMAIN orders : orders[o].pincode = "560034" )
    => LET d == engineers["e1"].workload - engineers["e2"].workload
       IN  d \in {-1, 0, 1}

-----------------------------------------------------------------------------
(* Order placement beside a maintained roster, checked under SpecRoster *)

\* C7: whatever placement comes to its engineer lookup in a reachable state,
\* the engineer the lookup hands it is eligible and no eligible engineer has
\* a strictly lower workload at that moment, and when an eligible engineer
\* exists one is handed to it; the order it then inserts is assigned to that
\* engineer, and the increment that follows raises the workload of that
\* engineer, by 1.
C7_AssignsLeastLoadedEligible ==
    /\ \A req \in { c \in creating : c.pc = "pick" }
                      \cup { ClaimPlacement(pincode) : pincode \in Pincodes } :
          \A r \in create_order_pick(req) :
              LET a == ClaimCall(r.creating, req.call).engineer IN
                  /\ a # NoEngineer =>
                        /\ a \in DOMAIN engineers
                        /\ ClaimEligible(a, req.pincode)
                        /\ \A o \in DOMAIN engineers :
                              ClaimEligible(o, req.pincode) =>
                                  engineers[a].workload <= engineers[o].workload
                  /\ (\E o \in DOMAIN engineers : ClaimEligible(o, req.pincode))
                        => a # NoEngineer
    /\ \A req \in { c \in creating : c.pc = "insert" } :
          Last(create_order_insert(req).orders).assigned_engineer_id = req.engineer
    /\ \A req \in { c \in creating : c.pc = "inc" } :
          /\ req.engineer \in DOMAIN engineers
          /\ \E o \in DOMAIN orders : orders[o].assigned_engineer_id = req.engineer
          /\ create_order_inc(req).engineers =
                [engineers EXCEPT ![req.engineer].workload = @ + 1,
                                  ![req.engineer].updated_at = req.ts]

\* e1 already carries an order and e2, who carries none, is off duty: a
\* placement for 560034 has been handed e1 all the same.
C7_Witness ==
    /\ engineers["e2"].status = "INACTIVE"
    /\ engineers["e2"].workload = 0
    /\ engineers["e1"].workload = 1
    /\ \E req \in creating :
          /\ req.pc = "insert"
          /\ req.pincode = "560034"
          /\ req.engineer = "e1"
          /\ req.workload = 1

-----------------------------------------------------------------------------
(* Order placement beside a maintained plan catalogue, checked under *)
(* SpecCatalogue *)

\* C14: a placement takes the price its plan has when it looks the plan up
\* and stores its order with that price; no step (a later price change of
\* the plan, an updateStatus, another createOrder) changes the price,
\* plan_id, user_id or assigned_engineer_id of a stored order.
C14_PriceSnapshot ==
    [][ /\ Len(orders') >= Len(orders)
        /\ \A i \in DOMAIN orders :
              /\ orders'[i].price = orders[i].price
              /\ orders'[i].plan_id = orders[i].plan_id
              /\ orders'[i].user_id = orders[i].user_id
              /\ orders'[i].assigned_engineer_id = orders[i].assigned_engineer_id
        /\ \A c \in creating' :
              IF \E d \in creating : d.call = c.call
              THEN /\ c.price = ClaimCall(creating, c.call).price
                   /\ c.plan_id = ClaimCall(creating, c.call).plan_id
              ELSE c.price = plans[c.plan_id].price
        /\ \A i \in (DOMAIN orders') \ (DOMAIN orders) :
              \E c \in creating :
                  /\ c.pc = "insert"
                  /\ orders'[i].price = c.price
                  /\ orders'[i].plan_id = c.plan_id ]_vars

\* An order placed at 699, updated by staff after its plan went to 799,
\* still priced 699 beside a later order of the same plan at 799.
C14_Witness ==
    /\ Len(orders) = 2
    /\ orders[1].plan_id = 1 /\ orders[1].price = 699
    /\ orders[2].plan_id = 1 /\ orders[2].price = 799
    /\ plans[1].price = 799
    /\ Len(orders[1].timeline) = 2
    /\ orders[1].updated_at > orders[2].created_at

\* C15: createOrder with the id of no plan, with a malformed id or with the
\* id of a plan that is not ACTIVE answers 400 at its plan lookup whatever
\* the caller and the pincode, and does not go on: nothing of it is left
\* that could store an order or raise a workload.
C15_InvalidPlanRejected ==
    \A user \in AllPrincipals, pincode \in Pincodes :
        \A plan_id \in 0..(Len(plans) + 1) :
            (plan_id \notin DOMAIN plans \/ plans[plan_id].status # "ACTIVE") =>
                create_order_begin(user, plan_id, pincode)
                    = [code |-> 400, creating |-> creating]

\* After an order was assigned and with no placement under way: a request
\* for the plan taken off sale and one for the id of no plan are refused
\* while the same request for an ACTIVE plan goes on.
C15_Witness ==
    /\ Len(orders) = 1
    /\ creating = {}
    /\ orders[1].assigned_engineer_id # NoEngineer
    /\ plans[2].status = "RETIRED"
    /\ LET u1 == [user_id |-> "u1", roles |-> {"user"}] IN
        /\ create_order_begin(u1, 2, "560034").code = 400
        /\ create_order_begin(u1, 4, "560034").code = 400
        /\ create_order_begin(u1, 1, "560034").code = 0

-----------------------------------------------------------------------------
(* Claims about the tickets router, checked under SpecTickets *)

\* The tickets of `after` are those of the store with exactly one note
\* appended to ticket `id`.
OneNoteAppended(after, id) ==
    /\ Len(after) = Len(tickets)
    /\ \A j \in DOMAIN tickets :
          IF j = id
          THEN /\ Len(after[j].notes) = Len(tickets[j].notes) + 1
               /\ SubSeq(after[j].notes, 1, Len(tickets[j].notes)) = tickets[j].notes
          ELSE after[j] = tickets[j]

\* A status / assign / comment call that has read the clock just now (no
\* call under way carries the number 0).
ClaimTicketCall(op, ticket_id, by, message) ==
    [ call |-> 0, op |-> op, ticket_id |-> ticket_id, by |-> by,
      message |-> message, ts |-> clock ]

\* The write of the ticket call `req`.
ClaimCommit(req) ==
    CASE req.op = "status" -> update_ticket_status_commit(req)
      [] req.op = "assign" -> assign_ticket_commit(req)
      [] OTHER -> add_ticket_comment_commit(req)

\* The calls whose write could come next: those under way and, for every
\* ticket, one of each kind begun just now.
ClaimTicketWrites ==
    { c \in ticketCalls : c.op # "create" }
        \cup { ClaimTicketCall("assign", id, "staff", "s1") : id \in 0..(Len(tickets) + 1) }
        \cup { ClaimTicketCall("status", id, "s1", "resolved") : id \in DOMAIN tickets }
        \cup { ClaimTicketCall("comment", id, "s1", "any news?") : id \in DOMAIN tickets }

\* C2: every ticket's notes hold the 'created' note plus one note per
\* successful updateStatus / assign / addComment on it; whatever request is
\* made in a reachable state, one refused at its checks (400, 403, 404) does
\* not go on to a write, and the write of a call answers 400 / 404 leaving
\* the tickets as they were or appends exactly one note.
C2_NotesCountOps ==
    /\ \A i \in DOMAIN tickets :
          /\ Len(tickets[i].notes) = 1 + nTicketOps[i]
          /\ tickets[i].notes[1].type = "created"
    /\ \A user \in AllPrincipals, id \in 0..(Len(tickets) + 1) :
          /\ \A status \in TicketStatusInputs :
                LET b == update_ticket_status_begin(user, id, status, clock) IN
                    b.code # 0 => b.code \in {400, 403, 404} /\ b.ticketCalls = ticketCalls
          /\ LET b == assign_ticket_begin(user, id, "s1", clock) IN
                    b.code # 0 => b.code \in {400, 403, 404} /\ b.ticketCalls = ticketCalls
          /\ LET b == add_ticket_comment_begin(user, id, "any news?", clock) IN
                    b.code # 0 => b.code \in {400, 403, 404} /\ b.ticketCalls = ticketCalls
    /\ \A req \in ClaimTicketWrites :
          LET r == ClaimCommit(req) IN
              IF r.code = 200 THEN OneNoteAppended(r.tickets, req.ticket_id)
              ELSE r.code \in {400, 404} /\ r.tickets = tickets

\* A ticket that went through one operation of each kind.
C2_Witness ==
    \E i \in DOMAIN tickets :
        /\ Len(tickets[i].notes) = 4
        /\ \E a, b, c \in 2..4 :
              /\ tickets[i].notes[a].type = "status"
              /\ tickets[i].notes[b].type = "assign"
              /\ tickets[i].notes[c].type = "comment"

\* C9: on an existing ticket, updateStatus to 'closed' passes its checks iff
\* the caller is the owner or staff, and to any other valid status iff the
\* caller is staff; every refusal is 403 and leaves nothing to write, and the
\* write of every call that passed sets the status.
C9_StatusAuthorization ==
    /\ \A user \in AllPrincipals, id \in DOMAIN tickets, status \in TicketStatuses :
        LET b == update_ticket_status_begin(user, id, status, clock)
            req == ClaimTicketCall("status", id, user.user_id, status)
            owner == tickets[id].user_id = user.user_id
            allowed == IF status = "closed" THEN owner \/ ClaimIsStaff(user)
                       ELSE ClaimIsStaff(user)
        IN  /\ (b.code = 0) <=> allowed
            /\ b.code # 0 => b.code = 403 /\ b.ticketCalls = ticketCalls
            /\ b.code = 0 =>
                  /\ b.ticketCalls = ticketCalls
                        \cup { [req EXCEPT !.call = NextTicketCall] }
                  /\ update_ticket_status_commit(req).code = 200
                  /\ update_ticket_status_commit(req).tickets[id].status = status
    /\ \A req \in { c \in ticketCalls : c.op = "status" } :
          /\ req.ticket_id \in DOMAIN tickets
          /\ \/ req.message = "closed" /\ req.by = tickets[req.ticket_id].user_id
             \/ \E p \in AllPrincipals : p.user_id = req.by /\ ClaimIsStaff(p)
          /\ update_ticket_status_commit(req).code = 200
          /\ update_ticket_status_commit(req).tickets[req.ticket_id].status = req.message

\* A ticket its non-staff owner has closed, on which the same owner is
\* refused 'in_progress' and a staff member is not.
C9_Witness ==
    \E i \in DOMAIN tickets :
        LET t == tickets[i]
            owner == [user_id |-> t.user_id, roles |-> {"user"}]
        IN  /\ t.user_id = "u2"
            /\ t.status = "closed"
            /\ t.notes[Len(t.notes)] = Note(clock, "u2", "status", "closed")
            /\ update_ticket_status_begin(owner, i, "in_progress", clock).code = 403
            /\ update_ticket_status_begin([user_id |-> "s1", roles |-> {"agent"}],
                                          i, "in_progress", clock).code = 0

\* C19: whatever assign is asked in a reachable state, a caller without a
\* staff role gets 403 and nothing is left to write; a staff caller goes on,
\* and the write answers 404 for a well-formed id of no ticket (400 for a
\* malformed one) leaving the tickets as they were, and on a stored ticket
\* succeeds whatever the ticket's status: the status becomes 'assigned', the
\* assignee the given user id, exactly one 'assign' note is appended and
\* nothing else of any ticket changes.
C19_AssignFromAnyStatus ==
    \A user \in AllPrincipals, id \in 0..(Len(tickets) + 1), assignee \in {"s1", "e1"} :
        LET b == assign_ticket_begin(user, id, assignee, clock)
            req == ClaimTicketCall("assign", id, "staff", assignee)
            r == assign_ticket_commit(req)
            staff == ClaimIsStaff(user)
        IN  /\ ~staff => b.code = 403 /\ b.ticketCalls = ticketCalls
            /\ staff =>
                  /\ b.code = 0
                  /\ b.ticketCalls = ticketCalls \cup { [req EXCEPT !.call = NextTicketCall] }
            /\ id \notin DOMAIN tickets =>
                  /\ r.code = IF id = MalformedId THEN 400 ELSE 404
                  /\ r.tickets = tickets
            /\ id \in DOMAIN tickets =>
                  /\ tickets[id].status \in TicketStatuses
                  /\ r.code = 200
                  /\ OneNoteAppended(r.tickets, id)
                  /\ Last(r.tickets[id].notes).type = "assign"
                  /\ Last(r.tickets[id].notes).message = assignee
                  /\ r.tickets[id] = [tickets[id] EXCEPT
                                         !.status = "assigned",
                                         !.assigned_to = assignee,
                                         !.updated_at = clock,
                                         !.notes = r.tickets[id].notes]

\* A ticket its owner had closed, assigned afterwards by staff, and then
\* resolved: staff may assign it once more.
C19_Witness ==
    \E i \in DOMAIN tickets :
        /\ Len(tickets[i].notes) = 4
        /\ tickets[i].notes[2].type = "status" /\ tickets[i].notes[2].message = "closed"
        /\ tickets[i].notes[3].type = "assign"
        /\ tickets[i].notes[4].type = "status" /\ tickets[i].notes[4].message = "resolved"
        /\ tickets[i].assigned_to = "s1"
        /\ tickets[i].status = "resolved"
        /\ assign_ticket_begin([user_id |-> "a1", roles |-> {"admin", "user"}],
                               i, "e1", clock).code = 0
        /\ assign_ticket_commit(ClaimTicketCall("assign", i, "staff", "e1"))
              .tickets[i].status = "assigned"

\* C20: whatever addComment is asked in a reachable state, a well-formed id
\* of no ticket is answered 404 and a caller who is neither the ticket's
\* owner nor staff 403; every addComment that is refused has written nothing
\* and goes on to no write (no note, no updated_at), and the write of one
\* that passed appends one 'comment' note and keeps the ticket's status.
C20_FailedCommentChangesNothing ==
    \A user \in AllPrincipals, id \in 0..(Len(tickets) + 1) :
        LET b == add_ticket_comment_begin(user, id, "any news?", clock)
            req == ClaimTicketCall("comment", id, user.user_id, "any news?")
        IN  /\ (id \notin DOMAIN tickets /\ id # MalformedId) => b.code = 404
            /\ (id \in DOMAIN tickets /\ tickets[id].user_id # user.user_id
                    /\ ~ClaimIsStaff(user)) => b.code = 403
            /\ b.code # 0 => b.ticketCalls = ticketCalls
            /\ b.code = 0 =>
                  /\ b.ticketCalls = ticketCalls \cup { [req EXCEPT !.call = NextTicketCall] }
                  /\ OneNoteAppended(add_ticket_comment_commit(req).tickets, id)
                  /\ Last(add_ticket_comment_commit(req).tickets[id].notes)
                        = Note(clock, user.user_id, "comment", "any news?")
                  /\ add_ticket_comment_commit(req).tickets[id].status = tickets[id].status

\* A ticket of u1 carrying a comment of its owner and one of staff, on which
\* u2 is refused; the id after the last ticket is unknown.
C20_Witness ==
    \E i \in DOMAIN tickets :
        /\ tickets[i].user_id = "u1"
        /\ Len(tickets[i].notes) = 3
        /\ tickets[i].notes[2].type = "comment" /\ tickets[i].notes[2].by = "u1"
        /\ tickets[i].notes[3].type = "comment" /\ tickets[i].notes[3].by = "s1"
        /\ tickets[i].status = "open"
        /\ add_ticket_comment_begin([user_id |-> "u2", roles |-> {"user"}],
                                    i, "any news?", clock).code = 403
        /\ add_ticket_comment_begin([user_id |-> "u1", roles |-> {"user"}],
                                    Len(tickets) + 1, "any news?", clock).code = 404

\* The status a list of notes stands for: 'open' without a note of type
\* status or assign, else 'assigned' when the last such note is an assign
\* note and the message of the last such note when it is a status note.
ClaimStatusOfNotes(notes) ==
    LET idx == { i \in DOMAIN notes : notes[i].type \in {"status", "assign"} } IN
        IF idx = {} THEN "open"
        ELSE LET last == CHOOSE i \in idx : \A j \in idx : j <= i IN
                 IF notes[last].type = "assign" THEN "assigned"
                 ELSE notes[last].message

ClaimStatusFollowsNotes ==
    \A t \in DOMAIN tickets : tickets[t].status = ClaimStatusOfNotes(tickets[t].notes)

\* C30: after every step, whatever the interleaving of the status, assign
\* and comment calls on a ticket, each ticket's status is the one its notes
\* stand for; and a step that appends a comment note leaves the ticket's
\* status and assignee as they were.
C30_StatusDeterminedByNotes ==
    [][ /\ ClaimStatusFollowsNotes'
        /\ \A t \in DOMAIN tickets :
              ( /\ Len(tickets'[t].notes) = Len(tickets[t].notes) + 1
                /\ Last(tickets'[t].notes).type = "comment" )
              => /\ tickets'[t].status = tickets[t].status
                 /\ tickets'[t].assigned_to = tickets[t].assigned_to ]_vars

\* Three calls on one ticket that overlapped: the assignment read its
\* timestamp first and wrote last, after a status update and a comment that
\* began later; the ticket ends 'assigned'.
C30_Witness ==
    /\ ticketCalls = {}
    /\ Len(tickets) = 1
    /\ Len(tickets[1].notes) = 4
    /\ tickets[1].notes[2].type = "status" /\ tickets[1].notes[2].message = "resolved"
    /\ tickets[1].notes[3].type = "comment"
    /\ tickets[1].notes[4].type = "assign"
    /\ tickets[1].notes[4].ts < tickets[1].notes[2].ts
    /\ tickets[1].status = "assigned"
    /\ tickets[1].assigned_to = "s1"

-----------------------------------------------------------------------------
(* Claims about the chat router, checked under SpecChat *)

\* The accepted checks of `key` whose timestamp lies in [from, to].
AcceptedIn(key, from, to) ==
    { i \in DOMAIN Deque(accepted, key) :
        from <= Deque(accepted, key)[i] /\ Deque(accepted, key)[i] <= to }

\* C3: for every principal, no interval of window_seconds holds more than
\* `limit` accepted sends; a send is refused with 429 exactly when `limit`
\* accepted sends of the principal are at most window_seconds old, so it is
\* accepted again as soon as enough of them are older than the window.
C3_RateLimitWindow ==
    \A user \in ChatUsers :
        /\ \A from \in 0..clock :
              Cardinality(AcceptedIn(user.user_id, from, from + WindowSeconds))
                  <= ChatRateLimitPerMinute
        /\ \A found \in FoundConversations(user.user_id) :
              (chat_send_begin(user, NoPayload, found, clock).code = 429)
                  <=> (Cardinality(AcceptedIn(user.user_id, clock - WindowSeconds, clock))
                          >= ChatRateLimitPerMinute)

\* A principal refused at a time when it had already been accepted more often
\* than `limit`: earlier events had left the window, and the window filled
\* up again.
C3_Witness ==
    /\ resp.op = "chatSend" /\ resp.code = 429
    /\ Len(Deque(accepted, resp.by)) > ChatRateLimitPerMinute
    /\ Len(Deque(events, resp.by)) = ChatRateLimitPerMinute
    /\ clock - Deque(events, resp.by)[1] = WindowSeconds

\* C4: a send refused with 429 has no further step: it creates no
\* conversation, stores no message, changes no last_message_at and sends
\* nothing to the AI service.
C4_RateLimitedNoEffect ==
    [][ (resp'.code = 429 /\ resp'.op = "chatSend")
            => UNCHANGED <<conversations, messages, pending, aiCalls>> ]_vars

\* A refused send of a user who has a conversation with stored messages,
\* while another send is waiting for the AI service.
C4_Witness ==
    /\ resp.op = "chatSend" /\ resp.code = 429
    /\ \E c \in DOMAIN conversations : conversations[c].user_id = resp.by
    /\ Len(messages) = ChatRateLimitPerMinute
    /\ aiCalls = ChatRateLimitPerMinute
    /\ \E p \in pending : p.pc = "await" /\ p.user_id = resp.by

\* C5: when the AI call of a send fails, the send ends there with an error
\* status: it stores nothing further (no 'ai' message), and the user's
\* message it had stored is still there, its conversation's last_message_at
\* not older than it.
C5_AiFailureKeepsUserMessage ==
    [][ (pending' # pending /\ resp'.ai \notin {"none", "replied"})
        => /\ resp'.code >= 400
           /\ messages' = messages
           /\ conversations' = conversations
           /\ \E p \in pending : pending' = pending \ {p}
           /\ \A p \in pending \ pending' :
                /\ p.pc = "await" /\ p.turn = "user" /\ p.reply_id = 0
                /\ p.message_id \in DOMAIN messages'
                /\ messages'[p.message_id].sender = "user"
                /\ messages'[p.message_id].conversation_id = p.conv_id
                /\ conversations'[p.conv_id].user_id = p.user_id
                /\ conversations'[p.conv_id].last_message_at
                       >= messages'[p.message_id].created_at ]_vars

\* A send whose AI call failed on a non-JSON body: its user message is the
\* newest message, none of sender 'ai' follows it.
C5_Witness ==
    /\ resp.op = "chatSend" /\ resp.ai = "nonjson" /\ resp.code >= 400
    /\ pending = {}
    /\ Len(messages) >= 2
    /\ messages[Len(messages)].sender = "user"
    /\ messages[Len(messages) - 1].sender = "ai"

\* C6 (as claimed): whichever way the AI call fails, the send answers 502.
C6_AllFailuresAre502 ==
    (resp.op = "chatSend" /\ resp.ai \notin {"none", "replied"}) => resp.code = 502

\* The conversations of `user_id` with the greatest last_message_at.
ClaimActiveConversations(user_id) ==
    { c \in DOMAIN conversations :
        /\ conversations[c].user_id = user_id
        /\ ~ \E o \in DOMAIN conversations :
              /\ conversations[o].user_id = user_id
              /\ conversations[o].last_message_at > conversations[c].last_message_at }

\* C10: for a user with a conversation, history(limit, cursor) returns the
\* `limit` newest messages of the active conversation with id below the cursor
\* (of all its messages without a cursor), oldest first; next_cursor is the
\* id of the first message of the page iff the page holds `limit` messages.
C10_HistoryPage ==
    \A user \in ChatUsers, limit \in HistoryLimits :
      \A cursor \in {NoCursor} \cup (1..(Len(messages) + 1)) :
        \A found \in FoundConversations(user.user_id) :
          found # 0 =>
            LET r == chat_history(user, limit, cursor, found)
                below == { i \in DOMAIN messages :
                             /\ messages[i].conversation_id = found
                             /\ (cursor = NoCursor \/ i < cursor) }
                page == { i \in below :
                             Cardinality({ j \in below : j > i }) < limit }
            IN  /\ found \in ClaimActiveConversations(user.user_id)
                /\ r.code = 200 /\ r.conversation_id = found
                /\ { r.messages[k] : k \in DOMAIN r.messages } = page
                /\ Len(r.messages) = Cardinality(page)
                /\ \A k \in 1..(Len(r.messages) - 1) : r.messages[k] < r.messages[k + 1]
                /\ IF Len(r.messages) = limit
                   THEN r.next_cursor = r.messages[1]
                   ELSE r.next_cursor = NoCursor

\* u1's conversation holds two messages around one of u2: the first page of
\* one is full and names its message as cursor, so does the page below that
\* cursor, and the page below the oldest message is empty with no cursor.
C10_Witness ==
    \E c \in DOMAIN conversations :
        /\ conversations[c].user_id = "u1"
        /\ Len(messages) = 3
        /\ messages[1].conversation_id = c
        /\ messages[2].conversation_id # c
        /\ messages[3].conversation_id = c
        /\ LET u1 == [user_id |-> "u1", roles |-> {"user"}]
               first == chat_history(u1, 1, NoCursor, c)
               second == chat_history(u1, 1, first.next_cursor, c)
               third == chat_history(u1, 1, second.next_cursor, c)
           IN  /\ first.messages = <<3>> /\ first.next_cursor = 3
               /\ second.messages = <<1>> /\ second.next_cursor = 1
               /\ third.messages = << >> /\ third.next_cursor = NoCursor

\* A client's walk: the answers of successive history calls, each made with
\* the next_cursor of the one before, until an answer carries none (or after
\* `calls` further calls).
RECURSIVE HistoryWalk(_, _, _, _, _)
HistoryWalk(user, limit, cursor, found, calls) ==
    LET r == chat_history(user, limit, cursor, found) IN
        IF r.next_cursor = NoCursor \/ calls = 0 THEN << r >>
        ELSE << r >> \o HistoryWalk(user, limit, r.next_cursor, found, calls - 1)

\* The pages of a walk laid end to end, the page fetched last first.
RECURSIVE WalkConcat(_)
WalkConcat(w) ==
    IF w = << >> THEN << >> ELSE WalkConcat(Tail(w)) \o Head(w).messages

\* C11: a walk from no cursor ends with a null next_cursor within
\* (messages + 1) calls, every call answers 200 for the same conversation,
\* and its pages, laid end to end from the last fetched to the first, list
\* every message of the conversation exactly once in increasing id order
\* (so pages are disjoint, contiguous and successively older).
C11_PagingWalkCoversConversation ==
    \A user \in ChatUsers, limit \in HistoryLimits :
        \A found \in FoundConversations(user.user_id) :
            found # 0 =>
                LET w == HistoryWalk(user, limit, NoCursor, found, Len(messages) + 1)
                    all == WalkConcat(w)
                IN  /\ Last(w).next_cursor = NoCursor
                    /\ Len(w) <= Len(messages) + 1
                    /\ \A k \in DOMAIN w : w[k].code = 200 /\ w[k].conversation_id = found
                    /\ \A k \in 1..(Len(w) - 1) : Len(w[k].messages) = limit
                    /\ \A k \in 1..(Len(all) - 1) : all[k] < all[k + 1]
                    /\ { all[k] : k \in DOMAIN all }
                          = { i \in DOMAIN messages : messages[i].conversation_id = found }

\* A conversation of three messages: with limit 2 the walk is the pages
\* <<2, 3>> and <<1>>; with limit 3 it is the full page and then an empty one.
C11_Witness ==
    \E c \in DOMAIN conversations :
        /\ conversations[c].user_id = "u1"
        /\ Len(messages) = 3
        /\ \A i \in DOMAIN messages : messages[i].conversation_id = c
        /\ LET u1 == [user_id |-> "u1", roles |-> {"user"}]
               two == HistoryWalk(u1, 2, NoCursor, c, 4)
               three == HistoryWalk(u1, 3, NoCursor, c, 4)
           IN  /\ Len(two) = 2
               /\ two[1].messages = <<2, 3>> /\ two[1].next_cursor = 2
               /\ two[2].messages = <<1>> /\ two[2].next_cursor = NoCursor
               /\ Len(three) = 2
               /\ three[1].messages = <<1, 2, 3>> /\ three[1].next_cursor = 1
               /\ three[2].messages = << >>

\* C17: while sends of the same and of different principals are in flight,
\* for every principal the limiter's queue never holds more than `limit`
\* events, it is the tail of the principal's accepted checks in the order
\* they were accepted, and every accepted check missing from it is older
\* than the window (it was evicted, not lost); the queues of two principals
\* hold each its own events only.
C17_ConcurrentChecksSafe ==
    /\ DOMAIN events \subseteq { u.user_id : u \in ChatUsers }
    /\ \A key \in { u.user_id : u \in ChatUsers } :
          LET q == Deque(events, key)
              a == Deque(accepted, key)
          IN  /\ Len(q) <= ChatRateLimitPerMinute
              /\ Len(q) <= Len(a)
              /\ SubSeq(a, Len(a) - Len(q) + 1, Len(a)) = q
              /\ \A i \in 1..(Len(a) - Len(q)) : clock - a[i] > WindowSeconds
              /\ Cardinality({ p \in pending : p.user_id = key }) <= Len(a)

\* Two sends of one principal in flight at once, both recorded, and a third
\* check of the same principal refused while they wait.
C17_Witness ==
    /\ Cardinality(pending) = 2
    /\ \A p \in pending : p.user_id = "u1" /\ p.pc = "await"
    /\ Deque(events, "u1") = << clock, clock >>
    /\ resp.op = "chatSend" /\ resp.by = "u1" /\ resp.code = 429

\* C21: whatever send passes the rate limit in a reachable state, it goes on
\* to create a conversation iff the caller has none, and otherwise to store
\* its user message in a conversation of the caller with the greatest
\* last_message_at.  A send about to insert its conversation still finds the
\* caller without one, and inserts one of the caller with started_at =
\* last_message_at; every message a send stores goes to the conversation it
\* resolved, which is still the caller's active one.  history reads that
\* conversation, and for a caller without one answers an empty page,
\* conversation id '' (0 here) and no cursor, whatever the cursor it was
\* given.
C21_ConversationContinuity ==
    /\ \A user \in ChatUsers, context \in ContextInputs :
          \A found \in FoundConversations(user.user_id) :
              LET r == chat_send_begin(user, context, found, clock)
                  mine == { c \in DOMAIN conversations :
                              conversations[c].user_id = user.user_id }
              IN  r.code # 429 =>
                    IF mine = {}
                    THEN Coroutine(user.user_id, "conv_clock", context, 0) \in r.pending
                    ELSE \E c \in ClaimActiveConversations(user.user_id) :
                            Coroutine(user.user_id, "store_clock", context, c) \in r.pending
    /\ \A p \in pending :
          /\ p.pc \in {"conv_clock", "conv_insert"} <=> p.conv_id = 0
          /\ p.conv_id = 0 =>
                ~ \E c \in DOMAIN conversations : conversations[c].user_id = p.user_id
          /\ p.pc = "conv_insert" =>
                LET r == get_or_create_conversation_insert(p) IN
                    /\ Len(r.conversations) = Len(conversations) + 1
                    /\ SubSeq(r.conversations, 1, Len(conversations)) = conversations
                    /\ Last(r.conversations).user_id = p.user_id
                    /\ Last(r.conversations).started_at = p.ts
                    /\ Last(r.conversations).last_message_at
                          = Last(r.conversations).started_at
                    /\ \E q \in r.pending : q.conv_id = Len(r.conversations)
          /\ p.conv_id # 0 =>
                /\ p.conv_id \in ClaimActiveConversations(p.user_id)
                /\ p.message_id # 0 => messages[p.message_id].conversation_id = p.conv_id
                /\ p.reply_id # 0 => messages[p.reply_id].conversation_id = p.conv_id
          /\ p.pc = "store_insert" =>
                Last(store_message_insert(p).messages).conversation_id = p.conv_id
    /\ \A user \in ChatUsers, limit \in HistoryLimits :
        \A cursor \in {NoCursor} \cup (0..(Len(messages) + 1)) :
          \A found \in FoundConversations(user.user_id) :
              LET r == chat_history(user, limit, cursor, found) IN
                  IF \E c \in DOMAIN conversations : conversations[c].user_id = user.user_id
                  THEN r.code = 200 =>
                          r.conversation_id \in ClaimActiveConversations(user.user_id)
                  ELSE r = [ code |-> 200, conversation_id |-> 0,
                             messages |-> << >>, next_cursor |-> NoCursor ]

\* u1 has a conversation holding a completed send and a second send waiting
\* for the AI service, both in that one conversation; u2, who never sent,
\* reads an empty history and would get a conversation of its own on its
\* first send.
C21_Witness ==
    LET u1 == [user_id |-> "u1", roles |-> {"user"}]
        u2 == [user_id |-> "u2", roles |-> {"user"}]
    IN  /\ Len(conversations) = 1
        /\ conversations[1].user_id = "u1"
        /\ Len(messages) = 3
        /\ messages[2].sender = "ai"
        /\ \E p \in pending :
              /\ pending = {p}
              /\ p.user_id = "u1" /\ p.pc = "await"
              /\ p.conv_id = 1 /\ p.message_id = 3
        /\ chat_history(u1, 3, NoCursor, 1).messages = <<1, 2, 3>>
        /\ chat_history(u2, 3, 2, 0).conversation_id = 0
        /\ Coroutine("u2", "conv_clock", NoPayload, 0)
              \in chat_send_begin(u2, NoPayload, 0, clock).pending

\* C22: a send stores its user message before it calls the AI service and,
\* whatever the service answers, goes on to its second store only with the
\* suggested actions turned into the empty list when the answer has none or
\* a value that is not a list.  That store adds exactly one message, of
\* sender 'ai', to the conversation of the user message, with an id above
\* that message's; and the send that ends with 200 returns the ids of that
\* conversation and of those two messages together with the actions.
C22_SendStoresUserThenAi ==
    \A p \in pending :
        /\ p.pc = "await" =>
              /\ p.turn = "user" /\ p.message_id \in DOMAIN messages
              /\ \A response \in AiResponses :
                    LET r == chat_send_resume(p, response) IN
                        r.code = 0 =>
                            \E q \in r.pending :
                                /\ r.pending = (pending \ {p}) \cup {q}
                                /\ q.turn = "ai" /\ q.pc = "store_clock"
                                /\ q.conv_id = p.conv_id
                                /\ q.message_id = p.message_id
                                /\ q.reply_id = 0
                                /\ response.actions \in {"absent", "string", "empty"}
                                      => q.actions = "empty"
                                /\ response.actions = "dicts" => q.actions = "dicts"
        /\ p.turn = "ai" =>
              /\ p.message_id \in DOMAIN messages
              /\ messages[p.message_id].sender = "user"
              /\ messages[p.message_id].conversation_id = p.conv_id
              /\ conversations[p.conv_id].user_id = p.user_id
        /\ (p.turn = "ai" /\ p.pc = "store_insert") =>
              LET r == store_message_insert(p) IN
                  /\ Len(r.messages) = Len(messages) + 1
                  /\ SubSeq(r.messages, 1, Len(messages)) = messages
                  /\ Last(r.messages).sender = "ai"
                  /\ Last(r.messages).conversation_id = p.conv_id
                  /\ Last(r.messages).payload
                        = IF p.actions = "empty" THEN NoPayload ELSE p.actions
                  /\ Len(r.messages) > p.message_id
        /\ (p.turn = "ai" /\ p.pc = "store_touch") =>
              LET r == store_message_touch(p) IN
                  /\ p.reply_id \in DOMAIN messages
                  /\ p.reply_id > p.message_id
                  /\ messages[p.reply_id].sender = "ai"
                  /\ messages[p.reply_id].conversation_id = p.conv_id
                  /\ r.code = 200 =>
                        /\ r.body.conversation_id = p.conv_id
                        /\ r.body.message_id = p.message_id
                        /\ r.body.reply_message_id = p.reply_id
                        /\ r.body.suggested_actions = p.actions
                        /\ p.actions \in {"empty", "dicts"}

\* Two sends of u1 overlapped: both user messages were stored before either
\* answer; the first send has just completed with its 'ai' message third,
\* the second is still waiting and an answer whose suggested_actions is a
\* string would take it on with an empty list.
C22_Witness ==
    /\ Len(messages) = 3
    /\ messages[1].sender = "user" /\ messages[2].sender = "user"
    /\ messages[3].sender = "ai"
    /\ resp.op = "chatSend" /\ resp.code = 200 /\ resp.ai = "replied"
    /\ \E p \in pending :
          /\ p.pc = "await"
          /\ \E q \in chat_send_resume(p, AiResponse("http", 200, "object", TRUE,
                                                     "string")).pending :
                q.turn = "ai" /\ q.message_id = p.message_id /\ q.actions = "empty"

\* The newest message (greatest id) of conversation `c` among `msgs`; 0 if none.
ClaimNewestMessage(msgs, c) ==
    LET mine == { i \in DOMAIN msgs : msgs[i].conversation_id = c } IN
        IF mine = {} THEN 0 ELSE CHOOSE i \in mine : \A j \in mine : j <= i

\* C23: in every step no conversation's last_message_at decreases; the step
\* that completes the store of a message leaves the conversation's
\* last_message_at at the created_at of its newest message; and whenever no
\* store is between its insert and its update, every conversation that holds
\* a message has the created_at of its newest message as last_message_at,
\* whichever way the user and ai messages of overlapping sends interleave.
C23_LastMessageAtTracksNewest ==
    [][ /\ \A c \in DOMAIN conversations :
              /\ c \in DOMAIN conversations'
              /\ conversations'[c].last_message_at >= conversations[c].last_message_at
        /\ \A p \in pending :
              (p.pc = "store_touch" /\ p \notin pending') =>
                  /\ ClaimNewestMessage(messages', p.conv_id) # 0
                  /\ conversations'[p.conv_id].last_message_at
                        = messages'[ClaimNewestMessage(messages', p.conv_id)].created_at
        /\ \A c \in DOMAIN conversations' :
              IF ClaimNewestMessage(messages', c) = 0
              THEN \E p \in pending' :
                      /\ p.conv_id = c /\ p.turn = "user"
                      /\ p.pc \in {"store_clock", "store_insert"}
              ELSE (~ \E p \in pending' : p.conv_id = c /\ p.pc = "store_touch")
                      => conversations'[c].last_message_at
                            = messages'[ClaimNewestMessage(messages', c)].created_at ]_vars

\* Two sends of u1 overlap: its user messages were stored at 0 and at 30,
\* the answer to one of them at 60, and last_message_at is 60.
C23_Witness ==
    /\ Len(conversations) = 1
    /\ Len(messages) = 3
    /\ messages[1].sender = "user" /\ messages[1].created_at = 0
    /\ messages[2].sender = "user" /\ messages[2].created_at = 30
    /\ messages[3].sender = "ai" /\ messages[3].created_at = 60
    /\ conversations[1].started_at = 0
    /\ conversations[1].last_message_at = 60
    /\ Cardinality(pending) = 1

\* C28: in every reachable state each user owns at most one conversation and
\* every conversation belongs to a user who has sent (its first message is
\* stored or about to be), however the sends of one user overlap around
\* their AI calls: a send that found no conversation inserts its own before
\* the loop takes up another send.
C28_OneConversationPerUser ==
    /\ \A user \in ChatUsers :
          Cardinality({ c \in DOMAIN conversations :
                          conversations[c].user_id = user.user_id }) <= 1
    /\ \A c \in DOMAIN conversations :
          /\ conversations[c].user_id \in { u.user_id : u \in ChatUsers }
          /\ \/ \E i \in DOMAIN messages :
                  messages[i].conversation_id = c /\ messages[i].sender = "user"
             \/ \E p \in pending :
                  /\ p.conv_id = c /\ p.turn = "user"
                  /\ p.pc \in {"store_clock", "store_insert"}
    /\ Cardinality(Running) <= 1
    /\ \A p \in Running :
          p.conv_id = 0 =>
              ~ \E c \in DOMAIN conversations : conversations[c].user_id = p.user_id

\* Two first sends of u1 were accepted at the same instant and both wait
\* for the AI service: they share the one conversation the first of them
\* created.
C28_Witness ==
    /\ Len(conversations) = 1
    /\ conversations[1].user_id = "u1"
    /\ conversations[1].started_at = clock
    /\ Cardinality(pending) = 2
    /\ \A p \in pending : p.user_id = "u1" /\ p.conv_id = 1 /\ p.pc = "await"
    /\ { p.message_id : p \in pending } = {1, 2}
    /\ messages[1].created_at = messages[2].created_at
    /\ aiCalls = 2

\* `q` is `p` with some of its oldest entries dropped.
ClaimIsTail(q, p) ==
    /\ Len(q) <= Len(p)
    /\ q = SubSeq(p, Len(p) - Len(q) + 1, Len(p))

\* C29: the limiter's queues change only in the rate-limit check of a send.
\* A send that passes appends its timestamp to its principal's queue (after
\* the eviction) and no later step of it, the end on a failed AI call
\* included, touches the queues, so the slot stays consumed; a refused send
\* adds nothing to its principal's queue; and neither touches the queue of
\* another principal or what a check of that principal would answer.
C29_SlotConsumedByPassingSends ==
    [][ LET by == resp'.by
            others == \A u \in ChatUsers :
                          u.user_id # by =>
                              /\ Deque(events', u.user_id) = Deque(events, u.user_id)
                              /\ check(events', u.user_id, clock).code
                                    = check(events, u.user_id, clock).code
        IN  IF Cardinality(pending') > Cardinality(pending)
            THEN /\ resp'.code = 0
                 /\ others
                 /\ Deque(events', by) # << >>
                 /\ Last(Deque(events', by)) = clock
                 /\ ClaimIsTail(SubSeq(Deque(events', by), 1,
                                       Len(Deque(events', by)) - 1),
                                Deque(events, by))
            ELSE IF pending' = pending /\ clock' = clock
            THEN /\ resp'.code = 429
                 /\ others
                 /\ ClaimIsTail(Deque(events', by), Deque(events, by))
            ELSE events' = events ]_vars

\* Both sends u1 was allowed have failed at the AI service and nothing waits
\* any more: u1's queue is still full, so its next send would be refused,
\* while u2's would pass.
C29_Witness ==
    /\ resp.op = "chatSend" /\ resp.by = "u1" /\ resp.code = 502
    /\ pending = {}
    /\ Len(messages) = ChatRateLimitPerMinute
    /\ \A i \in DOMAIN messages : messages[i].sender = "user"
    /\ Len(Deque(events, "u1")) = ChatRateLimitPerMinute
    /\ check(events, "u1", clock).code = 429
    /\ check(events, "u2", clock).code = 200

-----------------------------------------------------------------------------
(* Claims about the whole service, checked under SpecService *)

\* C16: in every step no engineer's workload decreases, and an engineer
\* document changes only in the increment step of a placement that was
\* handed that engineer and has stored its order: the workload goes up by
\* exactly 1 (updated_at set to the time the placement read) and no other
\* engineer changes.  So updateStatus and every ticket and chat step leave
\* all engineers as they were.
C16_WorkloadOnlyGrowsByAssignment ==
    [][ /\ DOMAIN engineers' = DOMAIN engineers
        /\ \A e \in DOMAIN engineers :
              /\ engineers'[e].workload >= engineers[e].workload
              /\ engineers'[e] # engineers[e] =>
                    /\ \E c \in creating \ creating' :
                          /\ c.pc = "inc" /\ c.engineer = e
                          /\ engineers'[e] = [engineers[e] EXCEPT !.workload = @ + 1,
                                                                  !.updated_at = c.ts]
                    /\ \E o \in DOMAIN orders : orders[o].assigned_engineer_id = e
                    /\ \A o \in DOMAIN engineers : o # e => engineers'[o] = engineers[o]
        /\ (orders' # orders \/ inflight' # inflight \/ tickets' # tickets
               \/ ticketCalls' # ticketCalls \/ conversations' # conversations
               \/ messages' # messages \/ events' # events \/ pending' # pending)
              => engineers' = engineers ]_vars

\* e2 still carries the order it was assigned after that order was
\* completed and, beside it, a ticket was closed by its owner.
C16_Witness ==
    /\ Len(orders) = 1
    /\ orders[1].assigned_engineer_id = "e2"
    /\ orders[1].status = "completed"
    /\ engineers["e2"].workload = 1
    /\ engineers["e1"].workload = 0
    /\ Len(tickets) = 1 /\ tickets[1].status = "closed"
    /\ tickets[1].updated_at > orders[1].updated_at

\* `p` is an initial part of `q`.
ClaimIsPrefix(p, q) ==
    /\ Len(p) <= Len(q)
    /\ p = SubSeq(q, 1, Len(p))

\* C24: nothing is deleted or rewritten.  In every step of the service the
\* collections of orders, tickets, conversations and messages keep every
\* document they had (same id, same owner, same creation time) and at most
\* grow; every stored message is the same after the step; and each order's
\* timeline and each ticket's notes before the step is a prefix of the one
\* after it.
C24_NothingDeletedOrRewritten ==
    [][ /\ Len(orders') >= Len(orders)
        /\ Len(tickets') >= Len(tickets)
        /\ Len(conversations') >= Len(conversations)
        /\ Len(messages') >= Len(messages)
        /\ ClaimIsPrefix(messages, messages')
        /\ \A o \in DOMAIN orders :
              /\ orders'[o].user_id = orders[o].user_id
              /\ orders'[o].created_at = orders[o].created_at
              /\ ClaimIsPrefix(orders[o].timeline, orders'[o].timeline)
        /\ \A t \in DOMAIN tickets :
              /\ tickets'[t].user_id = tickets[t].user_id
              /\ tickets'[t].created_at = tickets[t].created_at
              /\ ClaimIsPrefix(tickets[t].notes, tickets'[t].notes)
        /\ \A c \in DOMAIN conversations :
              /\ conversations'[c].user_id = conversations[c].user_id
              /\ conversations'[c].started_at = conversations[c].started_at ]_vars

\* A ticket opened at time 0 whose status was later changed twice, beside a
\* chat message stored at time 0 whose send has ended: the ticket still
\* starts with its 'created' note and the message is as it was stored.
C24_Witness ==
    /\ clock > 0
    /\ Len(tickets) = 1
    /\ Len(tickets[1].notes) = 3
    /\ tickets[1].notes[1].type = "created" /\ tickets[1].notes[1].ts = 0
    /\ tickets[1].notes[2].type = "status" /\ tickets[1].notes[3].type = "status"
    /\ tickets[1].notes[3].ts > 0
    /\ Len(messages) = 1 /\ messages[1].sender = "user" /\ messages[1].created_at = 0
    /\ pending = {}
    /\ Len(conversations) = 1 /\ conversations[1].started_at = 0

=============================================================================
